---- MODULE Spec2Model ----
(***************************************************************************)
(* tracing-forest: the span/event tree assembler (ForestLayer) with its   *)
(* event Visitor, id() and the Tree accessors, the processor pipeline      *)
(* (WithFallback, sender processors, Printer) and the decoupled worker of  *)
(* Runtime::on, as state machines.                                         *)
(*                                                                         *)
(* Time is an integer clock `now`; a Duration is a difference of clock     *)
(* readings.  A span's name is its registry id.  A Uuid is a natural       *)
(* number, Nil == 0.                                                       *)
(***************************************************************************)
EXTENDS Integers, Sequences, FiniteSets, TLC

\* ---------------------------------------------------------------- bounds
MaxSpans  == 3      \* span ids the registry hands out
MaxTime   == 3      \* last reading of the clock
MaxEvents == 2      \* events recorded in one behaviour
MaxEnters == 2      \* on_enter notifications per span
MaxSteps  == 7      \* notifications delivered to the layer in one behaviour
MaxSends  == 3      \* trees given to the sender processor in one behaviour
MaxCalls  == 3      \* calls of a built-in processor in one behaviour
MaxIdCalls == 2     \* calls of tracing_forest::id() in one behaviour
MaxFields == 3      \* fields of one event
MaxMantissa == 9999 \* digits of a duration given to DurationDisplay
MaxExponent == 9    \* power of ten scaling such a duration
MaxChildren == 2    \* children of a span given to a formatter
MaxDepth  == 3      \* depth of a tree given to a formatter
MaxBuffer == 1      \* bound of the sync_channel behind a SyncSender
MaxText   == 2      \* characters of a tag's prefix and of its level
HalfBytes == 2      \* bytes of one half of a Uuid (8 in the crate)

VARIABLES
    now,        \* Instant::now()
    reg,        \* the Registry: per span id its state and parent
    stack,      \* the Registry's per-thread stack of entered spans
    ext,        \* span extensions: id -> OpenedSpan, present while open
    processed,  \* trees passed to ForestLayer::processor, in call order
    elog,       \* history: per span id the enter/exit instants observed
    events,     \* history: per event the span it was recorded under
    tags,       \* per event its metadata, its `immediate` field and its tag
    tag_parser, \* ForestLayer::tag, the configured tag parser
    steps,      \* notifications delivered so far
    panic,      \* "none", or the message of the panic that unwound a call
    attrs,      \* history: per span id the uuid field its attributes held
    urgent,     \* lines written to stderr by write_immediate, in order
    orphaned,   \* history: events whose explicit parent the Registry lacked
    subscriber, \* a Registry with the ForestLayer is the current dispatcher
    got,        \* what the latest call of id() returned
    probe,      \* what Tree::event and Tree::span returned for a tree
    visitor,    \* on_event's Visitor and the fields still to be recorded
    fb_pc,      \* WithFallback: "idle", "built" or "done"
    fb_proc,    \* WithFallback: the processor that was built
    fb_in,      \* WithFallback: the tree given to process
    fb_out,     \* WithFallback: what process returned, and the calls made
    w_mode,     \* Runtime: "off", "worker" (WorkerTask) or "capture"
    m_pc,       \* Runtime::on: where the caller of on is
    w_pc,       \* Runtime::on: where the spawned worker task is
    queue,      \* the unbounded channel's buffer
    closed,     \* receiver.close() was called, or the receiver is gone
    sender,     \* a sender handle is still alive
    shutdown,   \* the oneshot: "unsent", "sent" or "dropped"
    worked,     \* trees the worker processed, with the phase it did so in
    captured,   \* trees collected by the capturing runtime
    accepted,   \* history: trees whose send succeeded, in send order
    rejected,   \* history: trees handed back to their producer
    ch_queue,   \* built-in processors: buffer of the channel they send on
    ch_closed,  \* built-in processors: the channel's receiver is gone
    sink,       \* built-in processors: what the writer received
    pcalls,     \* built-in processors: the calls of process so far
    pretty,     \* Pretty: the tree given to fmt, the generation, the lines written
    shown,      \* DurationDisplay: the value given to fmt and what it wrote
    compared,   \* Tag: a tag, a string, the tag's display text and tag == string
    uspan       \* uuid: an id, the span made with it and the uuid it is opened with

avars == <<now, reg, stack, ext, processed, elog, events, steps, panic, attrs,
           urgent, orphaned, subscriber, got, probe, tags, tag_parser>>
evars == <<visitor>>
fvars == <<fb_pc, fb_proc, fb_in, fb_out>>
wvars == <<w_mode, m_pc, w_pc, queue, closed, sender, shutdown, worked,
           captured, accepted, rejected>>
pvars == <<ch_queue, ch_closed, sink, pcalls>>
dvars == <<pretty, shown, compared, uspan>>

\* ----------------------------------------------------------- tree model
Nil == 0
NoParent == 0
SpanIds == 1..MaxSpans
Threads == {"t1", "t2"}
ExplicitUuids == {1, 2}

\* Uuid::new_v4(): a value no other span or caller-supplied id has
new_v4(id) == 100 + id

\* tree::Event built in on_event: Shared.uuid is Uuid::nil()
Event_new(eid) ==
    [kind |-> "event", name |-> eid, uuid |-> Nil, children |-> <<>>,
     total_duration |-> 0, inner_duration |-> 0]

\* tree::Span::new(shared, name)
Span_new(uuid, name) ==
    [kind |-> "span", name |-> name, uuid |-> uuid, children |-> <<>>,
     total_duration |-> 0, inner_duration |-> 0]

\* an enter that keeps the instant of construction
enter_keeps_start(os, t) == os

\* OpenedSpan::enter
enter(os, t) == [os EXCEPT !.start = t]

\* an exit that counts the interval as nested time as well
exit_counts_nested(os, t) ==
    [os EXCEPT !.span.total_duration = @ + (t - os.start),
               !.span.inner_duration = @ + (t - os.start)]

\* OpenedSpan::exit: total_duration += start.elapsed()
exit(os, t) ==
    [os EXCEPT !.span.total_duration = @ + (t - os.start)]

\* a record_event that leaves the event's own uuid
record_event_keeps_uuid(os, event) ==
    [os EXCEPT !.span.children = Append(@, event)]

\* a record_event that drops the event
record_event_drops(os, event) == os

\* a record_event that pushes the event twice
record_event_twice(os, event) ==
    [os EXCEPT !.span.children =
        @ \o <<[event EXCEPT !.uuid = os.span.uuid],
               [event EXCEPT !.uuid = os.span.uuid]>>]

\* OpenedSpan::record_event: the event takes the span's uuid
record_event(os, event) ==
    [os EXCEPT !.span.children =
        Append(@, [event EXCEPT !.uuid = os.span.uuid])]

\* a record_span that adds the child's inner instead of total duration
record_span_adds_inner(os, span) ==
    [os EXCEPT !.span.inner_duration = @ + span.inner_duration,
               !.span.children = Append(@, span)]

\* a record_span that puts the child in front of the others
record_span_in_front(os, span) ==
    [os EXCEPT !.span.inner_duration = @ + span.total_duration,
               !.span.children = <<span>> \o @]

\* OpenedSpan::record_span
record_span(os, span) ==
    [os EXCEPT !.span.inner_duration = @ + span.total_duration,
               !.span.children = Append(@, span)]

\* on_close without its clamp
clamp_absent(span) == span

\* the clamp of on_close
clamp(span) ==
    IF span.total_duration < span.inner_duration
    THEN [span EXCEPT !.total_duration = span.inner_duration]
    ELSE span

\* OpenedSpan::close followed by the clamp of on_close
close(os) == clamp(os.span)

\* ------------------------------------------------------------------- tags
Levels == {"TRACE", "DEBUG", "INFO", "WARN", "ERROR"}
Targets == {"admin", "security"}

\* event.metadata(): the target and the level of an event
Metas == [target : Targets, level : Levels]

\* the metadata of an event of which only the place matters
PlainMeta == [target |-> "app", level |-> "INFO"]

NoPrefix == "none"

\* Option<Tag>::None of a tag parser
NoTagParsed == [prefix |-> NoPrefix, level |-> "none", icon |-> "none"]

\* Tag::new_custom_level
Tag_new_custom_level(prefix, level, icon) ==
    [prefix |-> prefix, level |-> level, icon |-> icon]

\* Tag::new
Tag_new(prefix, level) ==
    CASE level = "TRACE" -> Tag_new_custom_level(prefix, "trace", "round_pushpin")
      [] level = "DEBUG" -> Tag_new_custom_level(prefix, "debug", "bug")
      [] level = "INFO"  -> Tag_new_custom_level(prefix, "info", "speech_balloon")
      [] level = "WARN"  -> Tag_new_custom_level(prefix, "warn", "construction")
      [] level = "ERROR" -> Tag_new_custom_level(prefix, "error", "rotating_light")

\* Tag::new_level, and From<Level> for Tag
Tag_new_level(level) == Tag_new(NoPrefix, level)

\* the tag parser of tests/tag.rs
kanidm_tag(meta) ==
    IF meta.target = "security" /\ meta.level = "ERROR"
    THEN Tag_new_custom_level(meta.target, "critical", "closed_lock_with_key")
    ELSE IF meta.target \in {"admin", "request"}
    THEN Tag_new(meta.target, meta.level)
    ELSE NoTagParsed

TagParsers == {"NoTag", "kanidm_tag"}

\* the tag parser's answer for an event
try_parse(parser, meta) ==
    IF parser = "NoTag" THEN NoTagParsed ELSE kanidm_tag(meta)

\* a tag taken of the level whatever the parser answers
event_tag_of_level(parser, meta) == Tag_new_level(meta.level)

\* on_event: self.tag.try_parse(event).unwrap_or_else(|| Tag::from(level))
event_tag(parser, meta) ==
    LET parsed == try_parse(parser, meta)
    IN  IF parsed # NoTagParsed THEN parsed ELSE Tag_new_level(meta.level)

\* Tag as text -----------------------------------------------------------
\* A &str is the sequence of its characters; an Option is a record whose
\* field `some` tells Some from None.
Chars == {"a", "."}

Strs(n) == UNION {[1..k -> Chars] : k \in 0..n}

Some(v) == [some |-> TRUE, v |-> v]

\* Option<&str>::None
NoStr == [some |-> FALSE, v |-> <<>>]

\* Option<bool>::None: eq was not called
NoBool == [some |-> FALSE, v |-> FALSE]

\* str::strip_prefix
strip_prefix(s, prefix) ==
    IF Len(s) >= Len(prefix) /\ SubSeq(s, 1, Len(prefix)) = prefix
    THEN Some(SubSeq(s, Len(prefix) + 1, Len(s)))
    ELSE NoStr

\* Option::and_then(|s| s.strip_prefix(prefix))
and_then_strip_prefix(option, prefix) ==
    IF option.some THEN strip_prefix(option.v, prefix) ELSE NoStr

\* an eq that compares the string with the level whatever the prefix
Tag_eq_of_level(tag, other) == other = tag.level

\* impl PartialEq<str> for Tag
Tag_eq(tag, other) ==
    IF tag.prefix.some
    THEN LET s == and_then_strip_prefix(strip_prefix(other, tag.prefix.v),
                                        <<".">>)
         IN  IF s.some THEN s.v = tag.level ELSE FALSE
    ELSE other = tag.level

\* impl fmt::Display for Tag
Tag_fmt(tag) ==
    IF tag.prefix.some THEN tag.prefix.v \o <<".">> \o tag.level
    ELSE tag.level

\* the tags of Tag::new_custom_level over short texts
TextTags ==
    {Tag_new_custom_level(prefix, level, "speech_balloon") :
        prefix \in {NoStr} \cup {Some(t) : t \in Strs(MaxText)},
        level \in Strs(MaxText)}

DIdleCompared ==
    compared = [tag |-> Tag_new_custom_level(NoStr, <<>>, "speech_balloon"),
                other |-> <<>>, display |-> NoStr, eq |-> NoBool]

DInitCompared ==
    compared \in {[tag |-> tag, other |-> other, display |-> NoStr,
                    eq |-> NoBool] :
                      tag \in TextTags, other \in Strs(2 * MaxText + 1)}

\* tag.to_string(), by impl Display
Tag_to_string ==
    /\ ~compared.display.some
    /\ compared' = [compared EXCEPT !.display = Some(Tag_fmt(compared.tag))]
    /\ UNCHANGED <<avars, fvars, wvars, pvars, evars, pretty, shown, uspan>>

\* tag == other
Tag_eq_call ==
    /\ ~compared.eq.some
    /\ compared' = [compared EXCEPT
                       !.eq = Some(Tag_eq(compared.tag, compared.other))]
    /\ UNCHANGED <<avars, fvars, wvars, pvars, evars, pretty, shown, uspan>>

\* uuid_span! ------------------------------------------------------------
\* A Uuid is the sequence of its bytes, 2 * HalfBytes of them; a u64 is a
\* word of HalfBytes bytes.
ByteBits == 8

WordBits == HalfBytes * ByteBits

ByteValues == {0, 1, 127, 128, 255}

Uuids == [1..(2 * HalfBytes) -> ByteValues]

RECURSIVE Pow2(_)
Pow2(k) == IF k = 0 THEN 1 ELSE 2 * Pow2(k - 1)

\* x << k of a u64
shl(x, k) == (x * Pow2(k)) % Pow2(WordBits)

\* x >> k of a u64
shr(x, k) == x \div Pow2(k)

\* x as u8
as_u8(x) == x % Pow2(ByteBits)

\* a | b
RECURSIVE bitor(_, _)
bitor(a, b) ==
    IF a = 0 THEN b
    ELSE IF b = 0 THEN a
    ELSE (IF a % 2 = 1 \/ b % 2 = 1 THEN 1 ELSE 0)
         + 2 * bitor(a \div 2, b \div 2)

\* (bytes[first] as u64) << .. | .. | bytes[first + HalfBytes - 1] as u64,
\* from its i-th operand on
RECURSIVE shifted_bytes(_, _, _)
shifted_bytes(bytes, first, i) ==
    IF i > HalfBytes THEN 0
    ELSE bitor(shl(bytes[first + i], ByteBits * (HalfBytes - i)),
               shifted_bytes(bytes, first, i + 1))

\* uuid::into_u64_pair
into_u64_pair(id) ==
    [msb |-> shifted_bytes(id, 0, 1), lsb |-> shifted_bytes(id, HalfBytes, 1)]

\* a from_u64_pair that takes the bytes of each word lowest first
from_u64_pair_lowest_first(msb, lsb) ==
    [i \in 1..(2 * HalfBytes) |->
        IF i <= HalfBytes THEN as_u8(shr(msb, ByteBits * (i - 1)))
        ELSE as_u8(shr(lsb, ByteBits * (i - HalfBytes - 1)))]

\* uuid::from_u64_pair
from_u64_pair(msb, lsb) ==
    [i \in 1..(2 * HalfBytes) |->
        IF i <= HalfBytes THEN as_u8(shr(msb, ByteBits * (HalfBytes - i)))
        ELSE as_u8(shr(lsb, ByteBits * (2 * HalfBytes - i)))]

\* Uuid::new_v4() as bytes: a value that is no caller's id
Uuid_new_v4 == [i \in 1..(2 * HalfBytes) |-> 77]

\* the uuid of the TreeSpanOpened of the current span
CurrentUuid == [i \in 1..(2 * HalfBytes) |-> 200]

\* Option<u64>::None, Option<Uuid>::None
NoU64 == [some |-> FALSE, v |-> 0]
NoUuid == [some |-> FALSE, v |-> [i \in 1..(2 * HalfBytes) |-> 0]]

\* uuid_span!(uuid, lvl, name): span!(lvl, name, __uuid_msb, __uuid_lsb)
uuid_span(id) ==
    LET pair == into_u64_pair(id)
    IN  <<[name |-> "__uuid_msb", value |-> pair.msb],
          [name |-> "__uuid_lsb", value |-> pair.lsb]>>

\* span!(lvl, name, n = 7, ..) with those of the two fields that are in keep
span_macro(id, keep) ==
    <<[name |-> "n", value |-> 7]>>
    \o SelectSeq(uuid_span(id), LAMBDA field : field.name \in keep)

\* SpanVisitor::new
SpanVisitor_new == [uuid_lsb |-> NoU64, uuid_msb |-> NoU64]

\* SpanVisitor::record_u64
SpanVisitor_record_u64(v, field) ==
    CASE field.name = "__uuid_lsb" -> [v EXCEPT !.uuid_lsb = Some(field.value)]
      [] field.name = "__uuid_msb" -> [v EXCEPT !.uuid_msb = Some(field.value)]
      [] OTHER -> v

\* attrs.record(&mut visitor)
RECURSIVE Attributes_record(_, _)
Attributes_record(values, v) ==
    IF values = <<>> THEN v
    ELSE Attributes_record(Tail(values),
                           SpanVisitor_record_u64(v, Head(values)))

\* SpanVisitor::get_uuid
get_uuid(v) ==
    IF v.uuid_msb.some /\ v.uuid_lsb.some
    THEN Some(from_u64_pair(v.uuid_msb.v, v.uuid_lsb.v))
    ELSE NoUuid

\* TreeSpanOpened::open: the uuid of the span; current is the uuid of
\* ctx.lookup_current()'s span, if there is one
TreeSpanOpened_open(values, current) ==
    LET uuid == get_uuid(Attributes_record(values, SpanVisitor_new))
    IN  IF uuid.some THEN uuid.v
        ELSE IF current.some THEN current.v
        ELSE Uuid_new_v4

DIdleUuid ==
    uspan = [id |-> NoUuid.v, current |-> NoUuid, pc |-> "idle",
             by |-> "none", attrs |-> <<>>, uuid |-> NoUuid.v]

DInitUuid ==
    uspan \in {[id |-> id, current |-> current, pc |-> "start",
                 by |-> "none", attrs |-> <<>>, uuid |-> NoUuid.v] :
                   id \in Uuids, current \in {NoUuid, Some(CurrentUuid)}}

\* the program makes a span with uuid_span!(id, ..)
uuid_span_call ==
    /\ uspan.pc = "start"
    /\ uspan' = [uspan EXCEPT !.pc = "made", !.by = "uuid_span",
                              !.attrs = uuid_span(uspan.id)]
    /\ UNCHANGED <<avars, fvars, wvars, pvars, evars, pretty, shown, compared>>

\* the program makes a span with span!, giving it one of the two fields or
\* neither
span_call(keep) ==
    /\ uspan.pc = "start"
    /\ uspan' = [uspan EXCEPT !.pc = "made", !.by = "span",
                              !.attrs = span_macro(uspan.id, keep)]
    /\ UNCHANGED <<avars, fvars, wvars, pvars, evars, pretty, shown, compared>>

\* on_new_span of layer.rs: TreeSpanOpened::open(attrs, &ctx)
TreeSpanOpened_open_call ==
    /\ uspan.pc = "made"
    /\ uspan' = [uspan EXCEPT
                    !.pc = "opened",
                    !.uuid = TreeSpanOpened_open(uspan.attrs, uspan.current)]
    /\ UNCHANGED <<avars, fvars, wvars, pvars, evars, pretty, shown, compared>>

\* ------------------------------------------------------------- registry
\* ctx.span(id) is Some: the Registry holds the span
Open(id) == reg[id].st = "open"

\* extensions().get::<OpenedSpan>() is Some
has_opened(id) == id \in DOMAIN ext

\* ctx.lookup_current(): the innermost span this thread has entered
lookup_current(t) ==
    IF stack[t] = <<>> THEN NoParent ELSE stack[t][Len(stack[t])]

\* how a span or event names its parent: Attributes::is_root, an explicit
\* parent handle, or the contextual (current) span
ParentChoices == {<<"root", 0>>, <<"contextual", 0>>}
                 \cup {<<"explicit", p>> : p \in {q \in SpanIds : Open(q)}}

\* an event whose explicit parent is an id the Registry no longer holds
StaleChoices == {<<"explicit", p>> : p \in {q \in SpanIds : ~Open(q)}}

\* an event_span that yields the explicit id whatever the Registry holds
event_span_unchecked(choice, t) ==
    CASE choice[1] = "root"       -> NoParent
      [] choice[1] = "explicit"   -> choice[2]
      [] choice[1] = "contextual" -> lookup_current(t)

\* Registry parent resolution (new_span) and Context::event_span; an
\* explicit id the Registry does not hold resolves to no span
event_span(choice, t) ==
    CASE choice[1] = "root"       -> NoParent
      [] choice[1] = "explicit"   ->
            IF Open(choice[2]) THEN choice[2] ELSE NoParent
      [] choice[1] = "contextual" -> lookup_current(t)

\* a parent lookup that yields the latest span still open
span_parent_latest(id) ==
    LET others == {q \in SpanIds : Open(q) /\ q # id}
    IN IF others = {} THEN NoParent
       ELSE CHOOSE q \in others : \A r \in others : r <= q

\* a parent lookup that finds no parent
span_parent_none(id) == NoParent

\* SpanRef::parent() in on_close
span_parent(id) == reg[id].parent

\* SpanRef::scope(): the span and its ancestors in the Registry, the span
\* itself first
RECURSIVE scope(_)
scope(id) ==
    IF id = NoParent \/ ~Open(id) THEN <<>>
    ELSE <<id>> \o scope(span_parent(id))

\* a from_root that keeps the order of scope()
from_root_leaf_first(s) == s

\* Scope::from_root(): the same spans, the root first
from_root(s) == [i \in 1..Len(s) |-> s[Len(s) + 1 - i]]

\* write_immediate: the line of an event, with the name of every span of
\* current.scope().from_root()
write_immediate(eid, current) ==
    [event |-> eid, scope |-> from_root(scope(current))]

InStack(id, t) == \E i \in 1..Len(stack[t]) : stack[t][i] = id
Entered(id) == \E t \in Threads : InStack(id, t)
HasOpenChild(id) == \E c \in SpanIds : Open(c) /\ reg[c].parent = id

\* OpenedSpan::new: the uuid field, else the current span's, else fresh
OpenedSpan_new(id, explicit, t) ==
    LET uuid == IF explicit # Nil THEN explicit
                ELSE IF lookup_current(t) # NoParent
                     THEN ext[lookup_current(t)].span.uuid
                     ELSE new_v4(id)
    IN [span |-> Span_new(uuid, id), start |-> now]

\* extensions.insert(opened)
insert(exts, id, opened) ==
    [x \in DOMAIN exts \cup {id} |-> IF x = id THEN opened ELSE exts[x]]

\* a remove that leaves the OpenedSpan in the extensions
remove_keeps(exts, id) == exts

\* extensions_mut().remove::<OpenedSpan>()
remove(exts, id) == [x \in DOMAIN exts \ {id} |-> exts[x]]

\* what the Registry delivers: a thread enters a span it holds and is not
\* inside already; it exits the span it entered last; a span closes once no
\* thread is inside it and no child span refers to it
Enters(t, id) == Open(id) /\ ~InStack(id, t)
Exits(t, id) == stack[t] # <<>> /\ id = lookup_current(t)
Closes(id) == Open(id) /\ ~Entered(id) /\ ~HasOpenChild(id)

\* ------------------------------------------------------ assembler actions
\* a layer before its first notification
AFresh ==
    /\ now = 0
    /\ reg = [id \in SpanIds |-> [st |-> "absent", parent |-> NoParent]]
    /\ stack = [t \in Threads |-> <<>>]
    /\ ext = <<>>
    /\ processed = <<>>
    /\ elog = [id \in SpanIds |-> <<>>]
    /\ events = <<>>
    /\ tags = <<>>
    /\ steps = 0
    /\ panic = "none"
    /\ attrs = [id \in SpanIds |-> Nil]
    /\ urgent = <<>>
    /\ orphaned = {}
    /\ got = <<>>
    /\ probe = <<>>

\* ForestLayer::new, the layer set on a Registry that is the dispatcher
AInit == AFresh /\ subscriber = TRUE /\ tag_parser = "NoTag"

\* the layer may also never have been installed
AInitAny == AFresh /\ subscriber \in BOOLEAN /\ tag_parser = "NoTag"

\* ForestLayer::new(processor, tag) with either tag parser
AInitTag == AFresh /\ subscriber = TRUE /\ tag_parser \in TagParsers

\* one more call reaches the layer or the crate; after a panic the program
\* is followed no further; the pipeline is not rebuilt
Step ==
    /\ panic = "none"
    /\ steps < MaxSteps
    /\ steps' = steps + 1
    /\ UNCHANGED <<subscriber, tag_parser>>
    /\ UNCHANGED <<fvars, wvars, pvars, evars, dvars>>

\* a notification of the dispatcher reaches the layer
Notify ==
    /\ subscriber
    /\ Step
    /\ UNCHANGED <<got, probe>>

\* a failed lookup that is passed over: the call returns, nothing done
Unwind_ignored(msg) ==
    UNCHANGED <<now, reg, stack, ext, processed, elog, events, tags, attrs,
                urgent, orphaned, panic>>

\* unwrap_or_else(fail::..) on None, expect(..) on Err: the call unwinds
Unwind(msg) ==
    /\ panic' = msg
    /\ UNCHANGED <<now, reg, stack, ext, processed, elog, events, tags, attrs,
                   urgent, orphaned>>

\* ForestLayer::on_new_span
on_new_span(t, id, choice, explicit) ==
    /\ Notify
    /\ reg[id].st = "absent"
    /\ \A j \in SpanIds : j < id => reg[j].st # "absent"
    /\ reg' = [reg EXCEPT ![id] =
                  [st |-> "open", parent |-> event_span(choice, t)]]
    /\ attrs' = [attrs EXCEPT ![id] = explicit]
    /\ IF /\ explicit = Nil
          /\ lookup_current(t) # NoParent
          /\ ~has_opened(lookup_current(t))
       THEN /\ panic' = "opened_span_not_in_exts"
            /\ UNCHANGED ext
       ELSE /\ ext' = insert(ext, id, OpenedSpan_new(id, explicit, t))
            /\ UNCHANGED panic
    /\ UNCHANGED <<now, stack, processed, elog, events, tags, urgent, orphaned>>

\* ForestLayer::on_enter; several threads may be inside one span at once
on_enter(t, id, d) ==
    /\ Notify
    /\ Len(SelectSeq(elog[id], LAMBDA e : e[1] = "enter")) < MaxEnters
    /\ now + d <= MaxTime
    /\ IF ~Open(id) THEN Unwind("span_not_in_ctx")
       ELSE IF ~has_opened(id) THEN Unwind("opened_span_not_in_exts")
       ELSE /\ now' = now + d
            /\ stack' = [stack EXCEPT ![t] = Append(@, id)]
            /\ ext' = [ext EXCEPT ![id] = enter(@, now')]
            /\ elog' = [elog EXCEPT ![id] = Append(@, <<"enter", now'>>)]
            /\ UNCHANGED <<reg, processed, events, tags, panic, attrs, urgent,
                           orphaned>>

\* ForestLayer::on_exit; the Registry has the thread leave the span
on_exit(t, id, d) ==
    /\ Notify
    /\ now + d <= MaxTime
    /\ IF ~Open(id) THEN Unwind("span_not_in_ctx")
       ELSE IF ~has_opened(id) THEN Unwind("opened_span_not_in_exts")
       ELSE /\ now' = now + d
            /\ stack' = [stack EXCEPT ![t] = SubSeq(@, 1, Len(@) - 1)]
            /\ ext' = [ext EXCEPT ![id] = exit(@, now')]
            /\ elog' = [elog EXCEPT ![id] = Append(@, <<"exit", now'>>)]
            /\ UNCHANGED <<reg, processed, events, tags, panic, attrs, urgent,
                           orphaned>>

\* ForestLayer::on_event; meta is the event's metadata (target and level),
\* immediate the event's `immediate` field,
\* write_ok the outcome of writing to stderr, process_ok the processor's
on_event(t, choice, meta, immediate, write_ok, process_ok) ==
    /\ Notify
    /\ Len(events) < MaxEvents
    /\ LET eid == Len(events) + 1
           event == Event_new(eid)
           parent == event_span(choice, t)
       IN IF immediate /\ parent # NoParent /\ ~has_opened(parent)
          THEN Unwind("opened_span_not_in_exts")
          ELSE IF immediate /\ ~write_ok
          THEN Unwind("writing urgent failed")
          ELSE IF parent # NoParent /\ ~has_opened(parent)
          THEN Unwind("opened_span_not_in_exts")
          ELSE /\ urgent' = IF immediate
                           THEN Append(urgent, write_immediate(eid, parent))
                           ELSE urgent
               /\ events' = Append(events, parent)
               /\ tags' = Append(tags, [meta |-> meta,
                                        immediate |-> immediate,
                                        tag |-> event_tag(tag_parser, meta)])
               /\ orphaned' = IF choice \in StaleChoices
                               THEN orphaned \cup {eid} ELSE orphaned
               /\ IF parent # NoParent
                  THEN /\ ext' = [ext EXCEPT
                                    ![parent] = record_event(@, event)]
                       /\ UNCHANGED <<processed, panic>>
                  ELSE /\ processed' = Append(processed, event)
                       /\ panic' = IF process_ok THEN "none"
                                   ELSE "processing_error"
                       /\ UNCHANGED ext
               /\ UNCHANGED <<now, reg, stack, elog, attrs>>

\* ForestLayer::on_close; process_ok is the processor's outcome
on_close(id, process_ok) ==
    /\ Notify
    /\ IF ~Open(id) THEN Unwind("span_not_in_ctx")
       ELSE IF ~has_opened(id) THEN Unwind("opened_span_not_in_exts")
       ELSE /\ LET span == close(ext[id])
                   parent == span_parent(id)
               IN IF parent # NoParent
                  THEN IF ~has_opened(parent)
                       THEN /\ ext' = remove(ext, id)
                            /\ panic' = "opened_span_not_in_exts"
                            /\ UNCHANGED processed
                       ELSE /\ ext' = [remove(ext, id) EXCEPT
                                         ![parent] = record_span(@, span)]
                            /\ UNCHANGED <<processed, panic>>
                  ELSE /\ ext' = remove(ext, id)
                       /\ processed' = Append(processed, span)
                       /\ panic' = IF process_ok THEN "none"
                                   ELSE "processing_error"
            /\ reg' = [reg EXCEPT ![id].st = "closed"]
            /\ UNCHANGED <<now, stack, elog, events, tags, attrs, urgent, orphaned>>

\* the Registry stores a span of which the layer is not notified (the
\* layer was not yet part of the subscriber): it gets no OpenedSpan
new_span_unnoticed(t, id, choice) ==
    /\ Notify
    /\ reg[id].st = "absent"
    /\ \A j \in SpanIds : j < id => reg[j].st # "absent"
    /\ reg' = [reg EXCEPT ![id] =
                  [st |-> "open", parent |-> event_span(choice, t)]]
    /\ UNCHANGED <<now, stack, ext, processed, elog, events, tags, panic, attrs,
                   urgent, orphaned>>

\* ------------------------------------------------------ tracing_forest::id
\* a current_span that yields the outermost entered span
current_span_outermost(t) ==
    IF stack[t] = <<>> THEN NoParent ELSE stack[t][1]

\* subscriber.current_span().id()
current_span(t) == lookup_current(t)

\* id(): the panic it ends in, "none" when it returns
id_panic(t) ==
    IF ~subscriber THEN "subscriber_not_found"
    ELSE IF current_span(t) = NoParent THEN "no_current_span"
    ELSE IF ~Open(current_span(t)) THEN "span_not_in_ctx"
    ELSE IF ~has_opened(current_span(t)) THEN "no_forest_layer"
    ELSE "none"

\* id(): the uuid it returns
id_uuid(t) ==
    IF id_panic(t) = "none" THEN ext[current_span(t)].span.uuid ELSE Nil

\* a call of tracing_forest::id() on thread t
tracing_forest_id(t) ==
    /\ Step
    /\ Len(got) < MaxIdCalls
    /\ panic' = id_panic(t)
    /\ got' = Append(got, [stack |-> stack[t], installed |-> subscriber,
                           panic |-> id_panic(t), uuid |-> id_uuid(t)])
    /\ UNCHANGED <<now, reg, stack, ext, processed, elog, events, tags, attrs,
                   urgent, orphaned, probe>>

\* ----------------------------------------------------- Tree::event / span
ExpectedEventError ==
    [kind |-> "ExpectedEventError", name |-> 0, uuid |-> Nil,
     children |-> <<>>, total_duration |-> 0, inner_duration |-> 0]

ExpectedSpanError ==
    [kind |-> "ExpectedSpanError", name |-> 0, uuid |-> Nil,
     children |-> <<>>, total_duration |-> 0, inner_duration |-> 0]

\* an accessor that hands out whatever the tree holds
Tree_span_unchecked(tree) == [ok |-> TRUE, value |-> tree]

\* Tree::event
Tree_event(tree) ==
    IF tree.kind = "event" THEN [ok |-> TRUE, value |-> tree]
    ELSE [ok |-> FALSE, value |-> ExpectedEventError]

\* Tree::span
Tree_span(tree) ==
    IF tree.kind = "span" THEN [ok |-> TRUE, value |-> tree]
    ELSE [ok |-> FALSE, value |-> ExpectedSpanError]

\* a consumer of the processed trees narrows the k-th of them both ways
narrow(k) ==
    /\ Step
    /\ k \in 1..Len(processed)
    /\ probe' = <<[tree |-> processed[k],
                   event |-> Tree_event(processed[k]),
                   span |-> Tree_span(processed[k])]>>
    /\ UNCHANGED <<now, reg, stack, ext, processed, elog, events, tags, panic,
                   attrs, urgent, orphaned, got>>

\* ------------------------------------------------- on_event's Visitor
\* the fields of an event as the macro records them: a name, the type the
\* value is recorded with, and the value
FieldNames == {"message", "immediate", "key"}

FieldValues ==
    {[type |-> "bool", v |-> "1"], [type |-> "bool", v |-> "0"],
     [type |-> "str", v |-> "a"], [type |-> "args", v |-> "a"]}

Fields == {[name |-> n, value |-> x] : n \in FieldNames, x \in FieldValues}

FieldSeqs == UNION {[1..n -> Fields] : n \in 0..MaxFields}

\* format!("{:?}", value): a bool prints true or false, a str prints in
\* quotes, format_args! prints as it is
format_debug(value) ==
    CASE value.type = "bool" -> IF value.v = "1" THEN "true" ELSE "false"
      [] value.type = "str"  -> "\"" \o value.v \o "\""
      [] value.type = "args" -> value.v

\* tree::Field::new(key, value)
Field_new(key, value) == [key |-> key, value |-> value]

\* Visitor { message: None, fields: FieldSet::default(), immediate: false }
Visitor_new(fs) ==
    [todo |-> fs, input |-> fs, message |-> <<>>, fields |-> <<>>,
     immediate |-> FALSE]

\* a record_debug that lets each message field replace the message
record_debug_last_wins(v, field) ==
    IF field.name = "message"
    THEN [v EXCEPT !.message = <<format_debug(field.value)>>]
    ELSE [v EXCEPT !.fields =
            Append(@, Field_new(field.name, format_debug(field.value)))]

\* Visitor::record_debug
record_debug(v, field) ==
    IF field.name = "message" /\ v.message = <<>>
    THEN [v EXCEPT !.message = <<format_debug(field.value)>>]
    ELSE [v EXCEPT !.fields =
            Append(@, Field_new(field.name, format_debug(field.value)))]

\* Visitor::record_bool
record_bool(v, field) ==
    IF field.name = "immediate"
    THEN [v EXCEPT !.immediate = @ \/ (field.value.v = "1")]
    ELSE record_debug(v, field)

VIdle == visitor = Visitor_new(<<>>)

\* on_event builds the Visitor for an event with some fields
VInit == visitor \in {Visitor_new(fs) : fs \in FieldSeqs}

VFrame == UNCHANGED <<avars, fvars, wvars, pvars, dvars>>

\* event.record(&mut visitor) reaches a bool field
Visitor_record_bool ==
    /\ visitor.todo # <<>>
    /\ Head(visitor.todo).value.type = "bool"
    /\ visitor' = [record_bool(visitor, Head(visitor.todo))
                      EXCEPT !.todo = Tail(visitor.todo)]
    /\ VFrame

\* event.record(&mut visitor) reaches a field of another type
Visitor_record_debug ==
    /\ visitor.todo # <<>>
    /\ Head(visitor.todo).value.type # "bool"
    /\ visitor' = [record_debug(visitor, Head(visitor.todo))
                      EXCEPT !.todo = Tail(visitor.todo)]
    /\ VFrame

\* ----------------------------------------------------------- WithFallback
\* no tree: the payload of a report whose tree was consumed
NoTree ==
    [kind |-> "none", name |-> 0, uuid |-> Nil, children |-> <<>>,
     total_duration |-> 0, inner_duration |-> 0]

SampleTrees == {Event_new(1), Span_new(new_v4(1), 1)}

\* what a processor does with a tree: succeed, fail and hand the tree back
\* in its report, or fail having consumed it
Behaviours == {"ok", "fail_tree", "fail_consumed"}

Leaf(id, beh) ==
    [kind |-> "leaf", id |-> id, beh |-> beh]

\* Processor::with_fallback
with_fallback(primary, fallback) ==
    [kind |-> "with_fallback", primary |-> primary, fallback |-> fallback]

Leaves(id) == {Leaf(id, b) : b \in Behaviours}

Processors ==
    {with_fallback(a, b) : a \in Leaves("p1"), b \in Leaves("p2")}
    \cup {with_fallback(with_fallback(a, b), c) :
            a \in Leaves("p1"), b \in Leaves("p2"), c \in Leaves("p3")}
    \cup {with_fallback(a, with_fallback(b, c)) :
            a \in Leaves("p1"), b \in Leaves("p2"), c \in Leaves("p3")}

\* Ok(())
Ok(calls) ==
    [ok |-> TRUE, payload |-> NoTree, reason |-> "none", calls |-> calls]

\* ProcessReport::new(payload, reason)
ProcessReport_new(payload, reason, calls) ==
    [ok |-> FALSE, payload |-> payload, reason |-> reason, calls |-> calls]

\* a processor given to with_fallback, called with a tree
leaf_process(p, tree) ==
    LET calls == <<[leaf |-> p.id, tree |-> tree]>>
    IN CASE p.beh = "ok" -> Ok(calls)
         [] p.beh = "fail_tree" -> ProcessReport_new(tree, p.id, calls)
         [] p.beh = "fail_consumed" -> ProcessReport_new(NoTree, p.id, calls)

RECURSIVE process(_, _)

\* a try_fallback that gives up whatever the report holds
try_fallback_never(report, fallback) == report

\* a try_fallback that calls the fallback with whatever the report holds
try_fallback_always(report, fallback) ==
    LET r == process(fallback, report.payload)
    IN [r EXCEPT !.calls = report.calls \o r.calls]

\* a try_fallback that keeps the failure of the primary
try_fallback_keeps_first(report, fallback) ==
    IF report.payload # NoTree
    THEN LET r == process(fallback, report.payload)
         IN IF r.ok THEN [r EXCEPT !.calls = report.calls \o r.calls]
            ELSE [report EXCEPT !.calls = report.calls \o r.calls]
    ELSE report

\* ProcessReport::try_fallback
try_fallback(report, fallback) ==
    IF report.payload # NoTree
    THEN LET r == process(fallback, report.payload)
         IN [r EXCEPT !.calls = report.calls \o r.calls]
    ELSE report

\* Processor::process; for WithFallback: primary.process(tree).or_else(..)
process(p, tree) ==
    IF p.kind = "leaf" THEN leaf_process(p, tree)
    ELSE LET r == process(p.primary, tree)
         IN IF r.ok THEN r ELSE try_fallback(r, p.fallback)

Pending == ProcessReport_new(NoTree, "pending", <<>>)

FIdle ==
    /\ fb_pc = "idle"
    /\ fb_proc = Leaf("p1", "ok")
    /\ fb_in = NoTree
    /\ fb_out = Pending

\* a processor built with with_fallback, not yet used
FInit ==
    /\ fb_pc = "built"
    /\ fb_proc \in Processors
    /\ fb_in = NoTree
    /\ fb_out = Pending

\* WithFallback::process(tree)
WithFallback_process(tree) ==
    /\ fb_pc = "built"
    /\ fb_pc' = "done"
    /\ fb_in' = tree
    /\ fb_out' = process(fb_proc, tree)
    /\ UNCHANGED fb_proc
    /\ UNCHANGED <<avars, wvars, pvars, evars, dvars>>

\* ------------------------------------------------------------ Runtime::on
\* who hands trees to the sender processor: the future given to on, and a
\* task it spawned that outlives it
Producers == {"main", "task"}

\* the n-th tree given to the sender processor
SentTree(p, n) == [producer |-> p, n |-> n]

NumSent == Len(accepted) + Len(rejected)

\* a recv that yields the newest buffered tree
recv_newest(q) ==
    [tree |-> q[Len(q)], rest |-> SubSeq(q, 1, Len(q) - 1)]

\* a recv that leaves the tree it yields in the buffer
recv_peek(q) == [tree |-> Head(q), rest |-> q]

\* receiver.recv() yielding Some(tree)
recv(q) == [tree |-> Head(q), rest |-> Tail(q)]

\* a try_recv that reports an empty buffer
try_recv_empty(q) == [ok |-> FALSE, tree |-> SentTree("main", 0), rest |-> q]

\* receiver.try_recv()
try_recv(q) ==
    IF q = <<>> THEN [ok |-> FALSE, tree |-> SentTree("main", 0), rest |-> q]
    ELSE [ok |-> TRUE, tree |-> Head(q), rest |-> Tail(q)]

WIdle ==
    /\ w_mode = "off"
    /\ m_pc = "idle"
    /\ w_pc = "idle"
    /\ queue = <<>>
    /\ closed = FALSE
    /\ sender = FALSE
    /\ shutdown = "unsent"
    /\ worked = <<>>
    /\ captured = <<>>
    /\ accepted = <<>>
    /\ rejected = <<>>

\* worker_task_inner / capture, then the start of Runtime::on: the channel
\* and the oneshot exist, the worker is spawned, the future runs
WInit ==
    /\ w_mode \in {"worker", "capture"}
    /\ m_pc = "running"
    /\ w_pc = IF w_mode = "worker" THEN "select" ELSE "idle"
    /\ queue = <<>>
    /\ closed = FALSE
    /\ sender = TRUE
    /\ shutdown = "unsent"
    /\ worked = <<>>
    /\ captured = <<>>
    /\ accepted = <<>>
    /\ rejected = <<>>

WFrame == UNCHANGED <<avars, fvars, pvars, evars, dvars, w_mode>>

\* the sender processor of worker_task_inner: tx.send(tree), an error
\* carrying the tree when the channel is closed
sender_process(p) ==
    /\ NumSent < MaxSends
    /\ sender
    /\ p = "main" => m_pc = "running"
    /\ LET tree == SentTree(p, NumSent + 1)
       IN IF closed
          THEN /\ rejected' = Append(rejected, tree)
               /\ UNCHANGED <<queue, accepted>>
          ELSE /\ queue' = Append(queue, tree)
               /\ accepted' = Append(accepted, tree)
               /\ UNCHANGED rejected
    /\ UNCHANGED <<m_pc, w_pc, closed, sender, shutdown, worked, captured>>
    /\ WFrame

\* f.await completes and the guard of the default subscriber is dropped;
\* the sender lives on when the subscriber is global or a task holds it
future_completes(keep) ==
    /\ m_pc = "running"
    /\ m_pc' = IF w_mode = "worker" THEN "signal"
               ELSE IF w_mode = "on_future" THEN "join" ELSE "close"
    /\ sender' = keep
    /\ UNCHANGED <<w_pc, queue, closed, shutdown, worked, captured,
                   accepted, rejected>>
    /\ WFrame

\* the future given to on panics: on unwinds, dropping shutdown_tx
future_panics(keep) ==
    /\ m_pc = "running"
    /\ m_pc' = "panicked"
    /\ sender' = keep
    /\ shutdown' = "dropped"
    /\ UNCHANGED <<w_pc, queue, closed, worked, captured, accepted, rejected>>
    /\ WFrame

\* shutdown_tx.send(()).expect(..): fails when the worker is gone
send_shutdown ==
    /\ m_pc = "signal"
    /\ IF w_pc \in {"done", "panicked"}
       THEN m_pc' = "panicked" /\ shutdown' = "dropped"
       ELSE m_pc' = "join" /\ shutdown' = "sent"
    /\ UNCHANGED <<w_pc, queue, closed, sender, worked, captured,
                   accepted, rejected>>
    /\ WFrame

\* handle.await.expect(..)
join_worker ==
    /\ m_pc = "join"
    /\ w_pc \in {"done", "panicked"}
    /\ m_pc' = IF w_pc = "done" THEN "returned" ELSE "panicked"
    /\ UNCHANGED <<w_pc, queue, closed, sender, shutdown, worked, captured,
                   accepted, rejected>>
    /\ WFrame

\* processor.process(tree).expect(fail::PROCESSING_ERROR) in the worker
worker_process(tree, phase, ok, next) ==
    IF ok
    THEN /\ worked' = Append(worked, [tree |-> tree, phase |-> phase])
         /\ w_pc' = next
         /\ UNCHANGED closed
    ELSE /\ w_pc' = "panicked"
         /\ closed' = TRUE
         /\ UNCHANGED worked

\* select!: Some(tree) = receiver.recv()
select_recv(ok) ==
    /\ w_pc = "select"
    /\ queue # <<>>
    /\ queue' = recv(queue).rest
    /\ worker_process(recv(queue).tree, "loop", ok, "select")
    /\ UNCHANGED <<m_pc, sender, shutdown, captured, accepted, rejected>>
    /\ WFrame

\* select!: Ok(()) = &mut shutdown_rx => break
select_shutdown ==
    /\ w_pc = "select"
    /\ shutdown = "sent"
    /\ w_pc' = "close"
    /\ UNCHANGED <<m_pc, queue, closed, sender, shutdown, worked, captured,
                   accepted, rejected>>
    /\ WFrame

\* select!: else => break, when recv yields None and shutdown_rx an error
select_else ==
    /\ w_pc = "select"
    /\ queue = <<>> /\ ~sender
    /\ shutdown = "dropped"
    /\ w_pc' = "close"
    /\ UNCHANGED <<m_pc, queue, closed, sender, shutdown, worked, captured,
                   accepted, rejected>>
    /\ WFrame

\* receiver.close() in the worker
worker_close ==
    /\ w_pc = "close"
    /\ closed' = TRUE
    /\ w_pc' = "drain"
    /\ UNCHANGED <<m_pc, queue, sender, shutdown, worked, captured,
                   accepted, rejected>>
    /\ WFrame

\* while let Ok(tree) = receiver.try_recv() { process }; then the task ends
worker_drain(ok) ==
    /\ w_pc = "drain"
    /\ LET r == try_recv(queue)
       IN IF r.ok
          THEN /\ queue' = r.rest
               /\ worker_process(r.tree, "drain", ok, "drain")
          ELSE /\ ok
               /\ w_pc' = "done"
               /\ UNCHANGED <<queue, closed, worked>>
    /\ UNCHANGED <<m_pc, sender, shutdown, captured, accepted, rejected>>
    /\ WFrame

\* async_layer's worker of builder.rs: while let Some(tree) = rx.recv().await
\* { fmt and write, each with expect(..) }
on_future_recv(ok) ==
    /\ w_pc = "recv"
    /\ queue # <<>>
    /\ queue' = recv(queue).rest
    /\ worker_process(recv(queue).tree, "loop", ok, "recv")
    /\ UNCHANGED <<m_pc, sender, shutdown, captured, accepted, rejected>>
    /\ WFrame

\* rx.recv() yields None: the buffer is empty and every sender is dropped
on_future_none ==
    /\ w_pc = "recv"
    /\ queue = <<>> /\ ~sender
    /\ w_pc' = "done"
    /\ UNCHANGED <<m_pc, queue, closed, sender, shutdown, worked, captured,
                   accepted, rejected>>
    /\ WFrame

\* Runtime::on of runtime.rs or SubscriberBuilder::on_future of builder.rs
\* has spawned its worker and runs the future
WInitJoin ==
    /\ w_mode \in {"worker", "on_future"}
    /\ m_pc = "running"
    /\ w_pc = IF w_mode = "worker" THEN "select" ELSE "recv"
    /\ queue = <<>>
    /\ closed = FALSE
    /\ sender = TRUE
    /\ shutdown = "unsent"
    /\ worked = <<>>
    /\ captured = <<>>
    /\ accepted = <<>>
    /\ rejected = <<>>

\* Runtime<S, Capture>::on: receiver.close()
capture_close ==
    /\ m_pc = "close"
    /\ closed' = TRUE
    /\ m_pc' = "collect"
    /\ UNCHANGED <<w_pc, queue, sender, shutdown, worked, captured,
                   accepted, rejected>>
    /\ WFrame

\* Runtime<S, Capture>::on: iter::from_fn(|| receiver.try_recv().ok())
capture_collect ==
    /\ m_pc = "collect"
    /\ LET r == try_recv(queue)
       IN IF r.ok
          THEN /\ queue' = r.rest
               /\ captured' = Append(captured, r.tree)
               /\ UNCHANGED m_pc
          ELSE /\ m_pc' = "returned"
               /\ UNCHANGED <<queue, captured>>
    /\ UNCHANGED <<w_pc, closed, sender, shutdown, worked, accepted, rejected>>
    /\ WFrame

\* ---------------------------------------------------- built-in processors
\* process returned
Returned(r) ==
    [result |-> IF r.ok THEN "ok" ELSE "err", payload |-> r.payload,
     reason |-> r.reason]

\* process did not return: expect(..) on an Err
Panicked(msg) ==
    [result |-> "panic", payload |-> NoTree, reason |-> msg]

\* processor::error(tree, e): the failure that hands the tree back
error(tree, e) == ProcessReport_new(tree, e, <<>>)

\* printer::Printer::process
Printer_process(tree, fmt_ok, write_ok) ==
    IF ~fmt_ok THEN Returned(error(tree, "fmt"))
    ELSE IF ~write_ok THEN Returned(error(tree, "io"))
    ELSE Returned(Ok(<<>>))

\* processor::printer::Printer::process
Printer_expect_process(tree, fmt_ok, write_ok) ==
    IF ~fmt_ok THEN Panicked("formatting failed")
    ELSE IF ~write_ok THEN Panicked("writing failed")
    ELSE Returned(Ok(<<>>))

\* impl Processor for Sender<Tree>: send on the unbounded std channel
Sender_process(tree, gone) ==
    IF gone THEN Returned(ProcessReport_new(tree, "SendError", <<>>))
    ELSE Returned(Ok(<<>>))

\* impl Processor for UnboundedSender<Tree>
UnboundedSender_process(tree, gone) ==
    IF gone THEN Returned(ProcessReport_new(tree, "SendError", <<>>))
    ELSE Returned(Ok(<<>>))

\* processor::sync::AsyncProcessor::process
AsyncProcessor_process(tree, gone) ==
    IF gone THEN Panicked("failed to send logs to processing thread")
    ELSE Returned(Ok(<<>>))

\* SyncSender::send has not returned: the calling thread is parked
Parked == [result |-> "parked", payload |-> NoTree, reason |-> "full"]

\* impl Processor for SyncSender<Tree>: send on a sync_channel(bound), which
\* blocks while the buffer holds bound trees and the receiver is alive
SyncSender_process(tree, gone, full) ==
    IF gone THEN Returned(ProcessReport_new(tree, "SendError", <<>>))
    ELSE IF full THEN Parked
    ELSE Returned(Ok(<<>>))

Printers == {"Printer", "Printer_expect"}
StdSenders == {"Sender", "SyncSender"}
Senders == {"Sender", "UnboundedSender", "AsyncProcessor"}

PInit ==
    /\ ch_queue = <<>>
    /\ ch_closed = FALSE
    /\ sink = <<>>
    /\ pcalls = <<>>

PFrame == UNCHANGED <<avars, fvars, wvars, evars, dvars>>

\* a printer formats the tree and writes the string
printer_process(impl, tree, fmt_ok, write_ok) ==
    /\ Len(pcalls) < MaxCalls
    /\ LET r == IF impl = "Printer"
                THEN Printer_process(tree, fmt_ok, write_ok)
                ELSE Printer_expect_process(tree, fmt_ok, write_ok)
           fault == IF ~fmt_ok THEN "format"
                    ELSE IF ~write_ok THEN "write" ELSE "none"
       IN /\ pcalls' = Append(pcalls, [impl |-> impl, tree |-> tree,
                                     fault |-> fault, out |-> r])
          /\ sink' = IF r.result = "ok" THEN Append(sink, tree) ELSE sink
    /\ UNCHANGED <<ch_queue, ch_closed>>
    /\ PFrame

\* a sender processor sends the tree on its channel; the send and the
\* closing of the channel are atomic with respect to each other
channel_process(impl, tree) ==
    /\ Len(pcalls) < MaxCalls
    /\ LET r == CASE impl = "Sender" -> Sender_process(tree, ch_closed)
                  [] impl = "UnboundedSender" ->
                        UnboundedSender_process(tree, ch_closed)
                  [] impl = "AsyncProcessor" ->
                        AsyncProcessor_process(tree, ch_closed)
       IN /\ pcalls' = Append(pcalls, [impl |-> impl, tree |-> tree,
                            fault |-> IF ch_closed THEN "closed" ELSE "none",
                            out |-> r])
          /\ ch_queue' = IF ch_closed THEN ch_queue ELSE Append(ch_queue, tree)
    /\ UNCHANGED <<ch_closed, sink>>
    /\ PFrame

\* the receiving end takes a tree
channel_recv ==
    /\ ~ch_closed
    /\ ch_queue # <<>>
    /\ ch_queue' = Tail(ch_queue)
    /\ UNCHANGED <<ch_closed, sink, pcalls>>
    /\ PFrame

\* the receiving end is closed or dropped
channel_close ==
    /\ ~ch_closed
    /\ ch_closed' = TRUE
    /\ UNCHANGED <<ch_queue, sink, pcalls>>
    /\ PFrame

\* the producer is inside a call of process that has not returned
Parking ==
    /\ pcalls # <<>>
    /\ pcalls[Len(pcalls)].out.result = "parked"

\* a producer thread calls process of a std::sync::mpsc sender
std_process(impl, tree) ==
    /\ Len(pcalls) < MaxCalls
    /\ ~Parking
    /\ LET full == Len(ch_queue) >= MaxBuffer
           r == IF impl = "SyncSender"
                THEN SyncSender_process(tree, ch_closed, full)
                ELSE Sender_process(tree, ch_closed)
       IN /\ pcalls' = Append(pcalls, [impl |-> impl, tree |-> tree,
                            fault |-> IF ch_closed THEN "closed"
                                      ELSE IF r.result = "parked" THEN "full"
                                      ELSE "none",
                            out |-> r])
          /\ ch_queue' = IF r.result = "ok" THEN Append(ch_queue, tree)
                         ELSE ch_queue
    /\ UNCHANGED <<ch_closed, sink>>
    /\ PFrame

\* the parked send is woken: the buffer has room, or the receiver is gone
SyncSender_wakes ==
    /\ Parking
    /\ ch_closed \/ Len(ch_queue) < MaxBuffer
    /\ LET i == Len(pcalls)
           r == SyncSender_process(pcalls[i].tree, ch_closed, FALSE)
       IN /\ pcalls' = [pcalls EXCEPT ![i].out = r]
          /\ ch_queue' = IF r.result = "ok"
                         THEN Append(ch_queue, pcalls[i].tree)
                         ELSE ch_queue
    /\ UNCHANGED <<ch_closed, sink>>
    /\ PFrame

\* -------------------------------------------------------- DurationDisplay
\* An f64 is modelled as a decimal floating-point number m * 10^e (m a
\* natural number), so that `t /= 1000.0` is exact and a value of a thousand
\* seconds of nanoseconds can be written down.

RECURSIVE Pow10(_)
Pow10(k) == IF k = 0 THEN 1 ELSE 10 * Pow10(k - 1)

\* Duration::as_nanos() as f64
as_f64(n) == [m |-> n, e |-> 0]

\* t < 10^k for k in 1..3, the comparisons of DurationDisplay::fmt
f64_lt(t, k) ==
    IF t.m = 0 THEN TRUE
    ELSE IF t.e >= 0 THEN t.e <= 3 /\ t.m * Pow10(t.e) < Pow10(k)
    ELSE IF k - t.e >= 9 THEN TRUE
    ELSE t.m < Pow10(k - t.e)

\* x / y rounded to the nearest integer, a tie going to the even one
round_div(x, y) ==
    LET q == x \div y
        r == x % y
    IN  IF 2 * r > y \/ (2 * r = y /\ q % 2 = 1) THEN q + 1 ELSE q

\* write!(f, "{:.d}{unit}", t): the digits of t rounded to d decimals
f64_write(t, d, unit) ==
    [value    |-> IF t.m = 0 THEN 0
                  ELSE IF t.e + d >= 0 THEN t.m * Pow10(t.e + d)
                  ELSE IF 0 - (t.e + d) >= 9 THEN 0
                  ELSE round_div(t.m, Pow10(0 - (t.e + d))),
     decimals |-> d,
     unit     |-> unit]

\* a display that never leaves nanoseconds
DurationDisplay_fmt_in_ns(t) == f64_write(t, 0, "ns")

RECURSIVE DurationDisplay_for(_, _)
\* the loop of DurationDisplay::fmt over the units that are left
DurationDisplay_for(t, units) ==
    IF units = <<>> THEN f64_write([t EXCEPT !.e = @ + 3], 0, "s")
    ELSE IF f64_lt(t, 1) THEN f64_write(t, 2, Head(units))
    ELSE IF f64_lt(t, 2) THEN f64_write(t, 1, Head(units))
    ELSE IF f64_lt(t, 3) THEN f64_write(t, 0, Head(units))
    ELSE DurationDisplay_for([t EXCEPT !.e = @ - 3], Tail(units))

\* impl fmt::Display for DurationDisplay
DurationDisplay_fmt(t) == DurationDisplay_for(t, <<"ns", "us", "ms", "s">>)

\* the durations shown: whole nanoseconds m * 10^e
ShownValues == {[m |-> m, e |-> e] : m \in 0..MaxMantissa, e \in 0..MaxExponent}

NotShown == [value |-> 0, decimals |-> 0, unit |-> "none"]

DIdleShown == shown = [t |-> as_f64(0), out |-> NotShown]

DInitShown == shown \in {[t |-> t, out |-> NotShown] : t \in ShownValues}

\* one call of DurationDisplay::fmt
DurationDisplay_fmt_call ==
    /\ shown.out = NotShown
    /\ shown' = [shown EXCEPT !.out = DurationDisplay_fmt(shown.t)]
    /\ UNCHANGED <<avars, fvars, wvars, pvars, evars, pretty, compared, uspan>>

\* ------------------------------------------------------------------ Pretty
\* A line of the output is the record of what is written after the prefix
\* of format_shared: the indent markers, then the span's name, duration and
\* percentages or the event's text.

None == 0 - 1

Absent == [class |-> "absent", value |-> 0, decimals |-> 0]

\* Option::unwrap_or
unwrap_or(option, default) == IF option = None THEN default ELSE option

\* format!("{:.d}", 100.0 * num / den), the division being one of f64
Percent(num, den, d) ==
    IF den = 0
    THEN [class |-> IF num = 0 THEN "NaN" ELSE "inf", value |-> 0, decimals |-> d]
    ELSE [class |-> "finite", value |-> round_div(100 * num * Pow10(d), den),
          decimals |-> d]

\* Span::base_duration
base_duration(span) == span.total_duration - span.inner_duration

\* the normalisation of the marker of the depth above before descending
normalize(indent) ==
    LET n == Len(indent)
    IN  IF n > 0 /\ indent[n] = "Turn" THEN [indent EXCEPT ![n] = "Null"]
        ELSE IF n > 0 /\ indent[n] = "Fork" THEN [indent EXCEPT ![n] = "Line"]
        ELSE indent

\* *indent.last_mut() = edge
set_last(indent, edge) ==
    IF indent = <<>> THEN indent ELSE [indent EXCEPT ![Len(indent)] = edge]

\* Pretty::format_event, the text being the event's name
Pretty_format_event(event, indent) ==
    [indent |-> indent, kind |-> "event", name |-> event.name,
     duration |-> NotShown, base |-> Absent, total |-> Absent]

\* the first line of Pretty::format_span with every percentage of the span
\* taken of the span's own duration
Pretty_span_line_of_self(span, duration_root, indent) ==
    [indent   |-> indent, kind |-> "span", name |-> span.name,
     duration |-> DurationDisplay_fmt(as_f64(span.total_duration)),
     base     |-> IF span.inner_duration > 0
                  THEN Percent(base_duration(span), span.total_duration, 2)
                  ELSE Absent,
     total    |-> Percent(span.total_duration, span.total_duration, 2)]

\* Pretty::format_span up to its writeln!
Pretty_span_line(span, duration_root, indent) ==
    LET root_duration ==
            IF duration_root = None THEN span.total_duration ELSE duration_root
    IN  [indent   |-> indent, kind |-> "span", name |-> span.name,
         duration |-> DurationDisplay_fmt(as_f64(span.total_duration)),
         base     |-> IF span.inner_duration > 0
                      THEN Percent(base_duration(span), root_duration, 2)
                      ELSE Absent,
         total    |-> Percent(span.total_duration, root_duration, 2)]

RECURSIVE Pretty_format_tree(_, _, _)
RECURSIVE Pretty_format_remaining(_, _, _)

\* the loop of Pretty::format_span over the children before the last; the
\* result is the lines written and the indent vector as the loop leaves it
Pretty_format_remaining(remaining, root_duration, indent) ==
    IF remaining = <<>> THEN [out |-> <<>>, indent |-> indent]
    ELSE LET first == Pretty_format_tree(Head(remaining), root_duration,
                                         set_last(indent, "Fork"))
             rest  == Pretty_format_remaining(Tail(remaining), root_duration,
                                              first.indent)
         IN  [out |-> first.out \o rest.out, indent |-> rest.indent]

\* Pretty::format_span
Pretty_format_span(span, duration_root, indent) ==
    LET root_duration ==
            IF duration_root = None THEN span.total_duration ELSE duration_root
        line == Pretty_span_line(span, duration_root, indent)
        n    == Len(span.children)
    IN  IF n = 0 THEN [out |-> <<line>>, indent |-> indent]
        ELSE LET rest == Pretty_format_remaining(
                             SubSeq(span.children, 1, n - 1), root_duration,
                             Append(normalize(indent), "Fork"))
                 last == Pretty_format_tree(span.children[n], root_duration,
                                            set_last(rest.indent, "Turn"))
             IN  [out    |-> <<line>> \o rest.out \o last.out,
                  indent |-> SubSeq(last.indent, 1, Len(last.indent) - 1)]

\* Pretty::format_tree
Pretty_format_tree(tree, duration_root, indent) ==
    IF tree.kind = "event"
    THEN [out |-> <<Pretty_format_event(tree, indent)>>, indent |-> indent]
    ELSE Pretty_format_span(tree, duration_root, indent)

\* formatter::pretty of the earlier generation -----------------------------

\* format_event, the text being the event's name
format_event(event, indent) ==
    [indent |-> indent, kind |-> "event", name |-> event.name,
     duration |-> NotShown, base |-> Absent, total |-> Absent]

RECURSIVE format_tree(_, _, _)
RECURSIVE format_remaining(_, _, _)

\* the loop of format_span over the children before the last
format_remaining(remaining, duration_root, indent) ==
    IF remaining = <<>> THEN [out |-> <<>>, indent |-> indent]
    ELSE LET first == format_tree(Head(remaining), duration_root,
                                  set_last(indent, "Turn"))
             rest  == format_remaining(Tail(remaining), duration_root,
                                       first.indent)
         IN  [out |-> first.out \o rest.out, indent |-> rest.indent]

\* format_span
format_span(span, root, indent) ==
    LET duration_total  == span.total_duration
        duration_nested == span.inner_duration
        duration_root   == IF root = None THEN duration_total ELSE root
        line == [indent   |-> indent, kind |-> "span", name |-> span.name,
                 duration |-> DurationDisplay_fmt(as_f64(duration_total)),
                 base     |-> IF duration_nested > 0
                              THEN Percent(duration_total - duration_nested,
                                           duration_root, 3)
                              ELSE Absent,
                 total    |-> Percent(duration_total, duration_root, 3)]
        n    == Len(span.children)
    IN  IF n = 0 THEN [out |-> <<line>>, indent |-> indent]
        ELSE LET rest == format_remaining(
                             SubSeq(span.children, 1, n - 1), duration_root,
                             Append(normalize(indent), "Fork"))
                 last == format_tree(span.children[n], duration_root,
                                     set_last(rest.indent, "Turn"))
             IN  [out    |-> <<line>> \o rest.out \o last.out,
                  indent |-> SubSeq(last.indent, 1, Len(last.indent) - 1)]

\* format_tree
format_tree(tree, duration_root, indent) ==
    IF tree.kind = "event"
    THEN [out |-> <<format_event(tree, indent)>>, indent |-> indent]
    ELSE format_span(tree, duration_root, indent)

\* the trees given to the formatters ---------------------------------------

\* what the assembler makes of a span: inner_duration is the sum of the
\* child spans' totals and, after the clamp, total_duration is no less
RECURSIVE SumOfTotals(_)
SumOfTotals(children) ==
    IF children = <<>> THEN 0
    ELSE Head(children).total_duration + SumOfTotals(Tail(children))

ASpan(total, children) ==
    [Span_new(Nil, IF children = <<>> THEN "inner" ELSE "outer")
        EXCEPT !.children = children, !.total_duration = total,
               !.inner_duration = SumOfTotals(children)]

Durations == {0, 40, 60, 100}

RECURSIVE TreesOfDepth(_)
TreesOfDepth(k) ==
    IF k = 1
    THEN {Event_new(1)} \cup {ASpan(d, <<>>) : d \in Durations}
    ELSE LET below == TreesOfDepth(k - 1)
             lists == UNION {[1..n -> below] : n \in 1..MaxChildren}
         IN  below \cup {ASpan(p[1], p[2]) :
                            p \in {q \in Durations \X lists :
                                      q[1] >= SumOfTotals(q[2])}}

FormattedTrees == TreesOfDepth(MaxDepth)

Generations == {"printer", "formatter"}

DIdlePretty ==
    pretty = [tree |-> Event_new(1), generation |-> "printer", out |-> <<>>]

DInitPretty ==
    pretty \in {[tree |-> t, generation |-> g, out |-> <<>>] :
                   t \in FormattedTrees, g \in Generations}

\* impl Formatter for Pretty (printer/pretty.rs): fmt
Pretty_fmt ==
    /\ pretty.generation = "printer"
    /\ pretty.out = <<>>
    /\ pretty' = [pretty EXCEPT
                     !.out = Pretty_format_tree(pretty.tree, None, <<>>).out]
    /\ UNCHANGED <<avars, fvars, wvars, pvars, evars, shown, compared, uspan>>

\* impl Formatter for Pretty (formatter/pretty.rs): fmt
formatter_Pretty_fmt ==
    /\ pretty.generation = "formatter"
    /\ pretty.out = <<>>
    /\ pretty' = [pretty EXCEPT
                     !.out = format_tree(pretty.tree, None, <<>>).out]
    /\ UNCHANGED <<avars, fvars, wvars, pvars, evars, shown, compared, uspan>>

DIdle == DIdlePretty /\ DIdleShown /\ DIdleCompared /\ DIdleUuid

\* --------------------------------------------------------- specifications
vars == <<avars, fvars, wvars, pvars, evars, dvars>>

Init == AInit /\ FIdle /\ WIdle /\ PInit /\ VIdle /\ DIdle

\* what a sound program and Registry deliver to the layer: threads T,
\* uuid fields U, clock advances D, immediate flags I, outcomes W of the
\* stderr write and K of the processor
Dispatch(T, U, D, I, W, K, M) ==
    \/ \E t \in T, id \in SpanIds, c \in ParentChoices, u \in U :
          on_new_span(t, id, c, u)
    \/ \E t \in T, id \in SpanIds, d \in D :
          Enters(t, id) /\ on_enter(t, id, d)
    \/ \E t \in T, id \in SpanIds, d \in D :
          Exits(t, id) /\ on_exit(t, id, d)
    \/ \E t \in T, c \in ParentChoices, imm \in I, w \in W, ok \in K,
          meta \in M :
          on_event(t, c, meta, imm, w, ok)
    \/ \E id \in SpanIds, ok \in K : Closes(id) /\ on_close(id, ok)

\* two threads, a processor that succeeds
Next == Dispatch(Threads, {Nil}, 0..1, {FALSE}, {TRUE}, {TRUE}, {PlainMeta})

Spec == Init /\ [][Next]_vars

\* one thread that calls id() inside and outside its spans; the layer may
\* not be installed
IdNext ==
    \/ Dispatch({"t1"}, {Nil} \cup ExplicitUuids, {0}, {FALSE}, {TRUE},
                {TRUE}, {PlainMeta})
    \/ tracing_forest_id("t1")

InitId == AInitAny /\ FIdle /\ WIdle /\ PInit /\ VIdle /\ DIdle

SpecId == InitId /\ [][IdNext]_vars

\* one thread that records immediate events, with a stderr and a processor
\* that may fail, and a consumer that narrows the processed trees
EventNext ==
    \/ Dispatch({"t1"}, {Nil}, {0}, BOOLEAN, BOOLEAN, BOOLEAN, {PlainMeta})
    \/ \E k \in 1..MaxSteps : narrow(k)

InitEvent == AInit /\ FIdle /\ WIdle /\ PInit /\ VIdle /\ DIdle

SpecEvent == InitEvent /\ [][EventNext]_vars

\* one thread whose program also addresses notifications to spans the
\* Registry does not hold, under a Registry that holds spans the layer
\* was not notified of
MisuseNext ==
    \/ \E id \in SpanIds, c \in ParentChoices :
          on_new_span("t1", id, c, Nil)
    \/ \E id \in SpanIds, c \in ParentChoices :
          new_span_unnoticed("t1", id, c)
    \/ \E id \in SpanIds :
          (Enters("t1", id) \/ ~Open(id)) /\ on_enter("t1", id, 0)
    \/ \E id \in SpanIds :
          (Exits("t1", id) \/ ~Open(id)) /\ on_exit("t1", id, 0)
    \/ \E c \in ParentChoices \cup StaleChoices :
          on_event("t1", c, PlainMeta, FALSE, TRUE, TRUE)
    \/ \E id \in SpanIds : (Closes(id) \/ ~Open(id)) /\ on_close(id, TRUE)

InitMisuse == AInit /\ FIdle /\ WIdle /\ PInit /\ VIdle /\ DIdle

SpecMisuse == InitMisuse /\ [][MisuseNext]_vars

VNext == Visitor_record_bool \/ Visitor_record_debug

InitVisit == AInit /\ FIdle /\ WIdle /\ PInit /\ VInit /\ DIdle

SpecVisit == InitVisit /\ [][VNext]_vars

FNext == \E tree \in SampleTrees : WithFallback_process(tree)

InitFallback == AInit /\ FInit /\ WIdle /\ PInit /\ VIdle /\ DIdle

SpecFallback == InitFallback /\ [][FNext]_vars

WNext ==
    \/ \E p \in Producers : sender_process(p)
    \/ \E keep \in BOOLEAN : future_completes(keep)
    \/ \E keep \in BOOLEAN : future_panics(keep)
    \/ send_shutdown
    \/ join_worker
    \/ \E ok \in BOOLEAN : select_recv(ok)
    \/ select_shutdown
    \/ select_else
    \/ worker_close
    \/ \E ok \in BOOLEAN : worker_drain(ok)
    \/ capture_close
    \/ capture_collect

InitWorker == AInit /\ FIdle /\ WInit /\ PInit /\ VIdle /\ DIdle

SpecWorker == InitWorker /\ [][WNext]_vars

JoinNext ==
    \/ \E p \in Producers : sender_process(p)
    \/ \E keep \in BOOLEAN : future_completes(keep)
    \/ \E keep \in BOOLEAN : future_panics(keep)
    \/ send_shutdown
    \/ join_worker
    \/ \E ok \in BOOLEAN : select_recv(ok)
    \/ select_shutdown
    \/ select_else
    \/ worker_close
    \/ \E ok \in BOOLEAN : worker_drain(ok)
    \/ \E ok \in BOOLEAN : on_future_recv(ok)
    \/ on_future_none

InitJoin == AInit /\ FIdle /\ WInitJoin /\ PInit /\ VIdle /\ DIdle

\* the tokio scheduler polls a task that can make progress, and select!
\* picks among its ready branches at random; the producers and the future
\* given to on are under no obligation
JoinFairness ==
    /\ WF_vars(send_shutdown)
    /\ WF_vars(join_worker)
    /\ WF_vars(\E ok \in BOOLEAN : select_recv(ok))
    /\ WF_vars(select_shutdown)
    /\ WF_vars(select_else)
    /\ WF_vars(worker_close)
    /\ WF_vars(\E ok \in BOOLEAN : worker_drain(ok))
    /\ WF_vars(\E ok \in BOOLEAN : on_future_recv(ok))
    /\ WF_vars(on_future_none)

SpecJoin == InitJoin /\ [][JoinNext]_vars /\ JoinFairness

PNext ==
    \/ \E impl \in Printers, tree \in SampleTrees, f \in BOOLEAN, w \in BOOLEAN :
          printer_process(impl, tree, f, w)
    \/ \E impl \in Senders, tree \in SampleTrees : channel_process(impl, tree)
    \/ channel_recv
    \/ channel_close

InitProc == AInit /\ FIdle /\ WIdle /\ PInit /\ VIdle /\ DIdle

SpecProc == InitProc /\ [][PNext]_vars

SyncNext ==
    \/ \E impl \in StdSenders, tree \in SampleTrees : std_process(impl, tree)
    \/ SyncSender_wakes
    \/ channel_recv
    \/ channel_close

InitSync == AInit /\ FIdle /\ WIdle /\ PInit /\ VIdle /\ DIdle

SpecSync == InitSync /\ [][SyncNext]_vars

PrettyNext == Pretty_fmt \/ formatter_Pretty_fmt

InitPretty ==
    /\ AInit /\ FIdle /\ WIdle /\ PInit /\ VIdle
    /\ DInitPretty /\ DIdleShown /\ DIdleCompared /\ DIdleUuid

SpecPretty == InitPretty /\ [][PrettyNext]_vars

ShownNext == DurationDisplay_fmt_call

InitShown ==
    /\ AInit /\ FIdle /\ WIdle /\ PInit /\ VIdle
    /\ DIdlePretty /\ DInitShown /\ DIdleCompared /\ DIdleUuid

SpecShown == InitShown /\ [][ShownNext]_vars

UuidNext ==
    \/ uuid_span_call
    \/ \E keep \in {{}, {"__uuid_msb"}, {"__uuid_lsb"}} : span_call(keep)
    \/ TreeSpanOpened_open_call

InitUuid ==
    /\ AInit /\ FIdle /\ WIdle /\ PInit /\ VIdle
    /\ DIdlePretty /\ DIdleShown /\ DIdleCompared /\ DInitUuid

SpecUuid == InitUuid /\ [][UuidNext]_vars

CompareNext == Tag_to_string \/ Tag_eq_call

InitCompare ==
    /\ AInit /\ FIdle /\ WIdle /\ PInit /\ VIdle
    /\ DIdlePretty /\ DIdleShown /\ DInitCompared /\ DIdleUuid

SpecCompare == InitCompare /\ [][CompareNext]_vars

\* one thread whose events have any metadata, under either tag parser
TagNext == Dispatch({"t1"}, {Nil}, {0}, {FALSE}, {TRUE}, {TRUE}, Metas)

InitTag == AInitTag /\ FIdle /\ WIdle /\ PInit /\ VIdle /\ DIdle

SpecTag == InitTag /\ [][TagNext]_vars

\* ------------------------------------------------ reading the assembled trees
RECURSIVE Nodes(_)
Nodes(tree) ==
    {tree} \cup UNION {Nodes(tree.children[i]) : i \in 1..Len(tree.children)}

Range(seq) == {seq[i] : i \in 1..Len(seq)}

\* every tree that is complete: handed to the processor, or attached to a
\* span that is still open
CompleteTrees ==
    Range(processed) \cup UNION {Range(ext[id].span.children) : id \in DOMAIN ext}

ClosedSpans ==
    {n \in UNION {Nodes(t) : t \in CompleteTrees} : n.kind = "span"}

ProcessedSpans ==
    {n \in UNION {Nodes(t) : t \in Range(processed)} : n.kind = "span"}

RECURSIVE SumTotals(_)
SumTotals(children) ==
    IF children = <<>> THEN 0
    ELSE (IF Head(children).kind = "span"
          THEN Head(children).total_duration ELSE 0)
         + SumTotals(Tail(children))

HasSpanChild(span) ==
    \E i \in 1..Len(span.children) : span.children[i].kind = "span"

HasEventChild(span) ==
    \E i \in 1..Len(span.children) : span.children[i].kind = "event"

\* the log is enter, exit, enter, exit, ...
Alternating(log) ==
    /\ Len(log) % 2 = 0
    /\ \A i \in 1..Len(log) :
          log[i][1] = (IF i % 2 = 1 THEN "enter" ELSE "exit")

RECURSIVE SumIntervals(_)
SumIntervals(log) ==
    IF Len(log) < 2 THEN 0
    ELSE (log[2][2] - log[1][2]) + SumIntervals(SubSeq(log, 3, Len(log)))

RECURSIVE RootOf(_)
RootOf(id) ==
    IF reg[id].parent = NoParent THEN id ELSE RootOf(reg[id].parent)

\* the record of span p: its OpenedSpan while open, its node once closed
SpanRecord(p) ==
    IF p \in DOMAIN ext THEN ext[p].span
    ELSE CHOOSE n \in ClosedSpans : n.name = p

EventPlaces(span, eid) ==
    {i \in 1..Len(span.children) :
        span.children[i].kind = "event" /\ span.children[i].name = eid}

\* ------------------------------------------------------------------ claims

\* C1: every span that on_close attached to a parent or forwarded to the
\* processor has total_duration >= inner_duration, so its exclusive
\* duration is not negative, also when a child ran while the parent was
\* never entered.
C1_TotalAtLeastNested ==
    \A s \in ClosedSpans : s.total_duration >= s.inner_duration

\* a processed span that was never entered and whose child spans ran
C1_Witness ==
    \E s \in ProcessedSpans :
        /\ elog[s.name] = <<>>
        /\ s.inner_duration > 0
        /\ s.total_duration = s.inner_duration

\* C2: in every tree handed to the processor, a span's inner_duration is
\* the sum of the total_duration of its direct child spans; child events
\* add nothing.
C2_NestedIsSumOfChildren ==
    \A s \in ProcessedSpans : s.inner_duration = SumTotals(s.children)

\* a processed span with an event child and a child span that took time
C2_Witness ==
    \E s \in ProcessedSpans :
        /\ HasEventChild(s)
        /\ \E i \in 1..Len(s.children) :
              s.children[i].kind = "span" /\ s.children[i].total_duration > 0

\* C3: a span that went open, (enter, exit)*, close and received no child
\* span has total_duration equal to the sum of its exit - enter intervals
\* and inner_duration 0.
C3_TotalIsSumOfIntervals ==
    \A s \in ClosedSpans :
        (Alternating(elog[s.name]) /\ ~HasSpanChild(s)) =>
            /\ s.total_duration = SumIntervals(elog[s.name])
            /\ s.inner_duration = 0

\* a closed childless span entered and exited twice, one time unit each
C3_Witness ==
    \E s \in ClosedSpans :
        /\ Alternating(elog[s.name]) /\ ~HasSpanChild(s)
        /\ Len(elog[s.name]) = 4
        /\ elog[s.name][2][2] - elog[s.name][1][2] = 1
        /\ elog[s.name][4][2] - elog[s.name][3][2] = 1
        /\ elog[s.name][3][2] > elog[s.name][2][2]
        /\ s.total_duration = 2

\* C4: an event recorded under a span is a child of that span, exactly
\* once, is not passed to the processor on its own, and carries the span's
\* uuid.
C4_EventAttachedWithSpanUuid ==
    \A eid \in 1..Len(events) :
        events[eid] # NoParent =>
            /\ \A i \in 1..Len(processed) :
                  ~(processed[i].kind = "event" /\ processed[i].name = eid)
            /\ LET s == SpanRecord(events[eid])
               IN /\ Cardinality(EventPlaces(s, eid)) = 1
                  /\ \A i \in EventPlaces(s, eid) : s.children[i].uuid = s.uuid

\* an event recorded under a span that is still open, with a uuid not nil
C4_Witness ==
    \E eid \in 1..Len(events) :
        /\ events[eid] # NoParent
        /\ events[eid] \in DOMAIN ext
        /\ \E i \in EventPlaces(ext[events[eid]].span, eid) :
              ext[events[eid]].span.children[i].uuid # Nil

\* C5: a processed root span's tree holds exactly the spans and events
\* recorded under that root, whatever the interleaving with another root.
C5_NoCrossContamination ==
    \A k \in 1..Len(processed) :
        LET T == processed[k] IN
        T.kind = "span" =>
            /\ \A n \in Nodes(T) :
                  IF n.kind = "span" THEN RootOf(n.name) = T.name
                  ELSE /\ events[n.name] # NoParent
                       /\ RootOf(events[n.name]) = T.name
            /\ \A id \in SpanIds :
                  (reg[id].st # "absent" /\ RootOf(id) = T.name) =>
                      \E n \in Nodes(T) : n.kind = "span" /\ n.name = id
            /\ \A eid \in 1..Len(events) :
                  (events[eid] # NoParent /\ RootOf(events[eid]) = T.name) =>
                      \E n \in Nodes(T) : n.kind = "event" /\ n.name = eid

\* roots 1 and 2 both processed, 1 first; span 3 was opened under root 1
\* after root 2 was opened and closed before root 2 closed; an event was
\* recorded under root 2
C5_Witness ==
    /\ Len(processed) = 2
    /\ processed[1].kind = "span" /\ processed[1].name = 1
    /\ processed[2].kind = "span" /\ processed[2].name = 2
    /\ \E i \in 1..Len(processed[1].children) :
          processed[1].children[i].kind = "span"
          /\ processed[1].children[i].name = 3
    /\ HasEventChild(processed[2])
RECURSIVE LeafIds(_)
LeafIds(p) ==
    IF p.kind = "leaf" THEN {p.id}
    ELSE LeafIds(p.primary) \cup LeafIds(p.fallback)

CallsTo(p) ==
    SelectSeq(fb_out.calls, LAMBDA c : c.leaf \in LeafIds(p))

\* C6: with_fallback(primary, fallback).process(t): when primary fails and
\* its report holds the tree, the fallback receives that tree and the
\* result is the fallback's; when primary fails with no payload, the
\* fallback is not called and the failure is primary's.
C6_FallbackOnlyWithPayload ==
    fb_pc = "done" =>
        LET r == process(fb_proc.primary, fb_in)
            f == process(fb_proc.fallback, fb_in)
        IN /\ (~r.ok /\ r.payload # NoTree) =>
                 /\ r.payload = fb_in
                 /\ CallsTo(fb_proc.fallback) = f.calls
                 /\ Head(CallsTo(fb_proc.fallback)).tree = fb_in
                 /\ fb_out.ok = f.ok
                 /\ fb_out.reason = f.reason
                 /\ fb_out.payload = f.payload
           /\ (~r.ok /\ r.payload = NoTree) =>
                 /\ CallsTo(fb_proc.fallback) = <<>>
                 /\ ~fb_out.ok
                 /\ fb_out.reason = r.reason
                 /\ fb_out.payload = NoTree

\* primary failed with the tree in its report and the fallback succeeded
C6_Witness ==
    /\ fb_pc = "done"
    /\ fb_proc.primary = Leaf("p1", "fail_tree")
    /\ fb_proc.fallback = Leaf("p2", "ok")
    /\ fb_out.ok
    /\ fb_out.calls = <<[leaf |-> "p1", tree |-> fb_in],
                        [leaf |-> "p2", tree |-> fb_in]>>
WorkedTrees == [i \in 1..Len(worked) |-> worked[i].tree]

IsPrefix(a, b) == Len(a) <= Len(b) /\ a = SubSeq(b, 1, Len(a))

C8_ProcessedInSendOrder ==
    /\ IsPrefix(WorkedTrees, accepted)
    /\ IsPrefix(captured, accepted)
    /\ (w_mode = "capture" /\ m_pc = "returned") => captured = accepted

\* the worker processed two trees of one producer in the receive loop
\* while a third was still buffered
C8_Witness ==
    /\ w_mode = "worker"
    /\ Len(worked) = 2
    /\ worked[1].tree = SentTree("main", 1) /\ worked[1].phase = "loop"
    /\ worked[2].tree = SentTree("main", 2)
    /\ queue = <<SentTree("main", 3)>>

\* capture returned three trees of two producers in send order
C8_WitnessCapture ==
    /\ w_mode = "capture" /\ m_pc = "returned"
    /\ captured = <<SentTree("main", 1), SentTree("task", 2),
                    SentTree("main", 3)>>
\* C9: the sender processor's process succeeds unless the receiving end is
\* closed or dropped; then it returns a failure holding the same tree; it
\* never panics.
C9_SenderFailsWithTree ==
    \A i \in 1..Len(pcalls) :
        pcalls[i].impl \in {"UnboundedSender", "AsyncProcessor"} =>
            /\ pcalls[i].out.result # "panic"
            /\ pcalls[i].fault = "none" => pcalls[i].out.result = "ok"
            /\ pcalls[i].fault = "closed" =>
                  /\ pcalls[i].out.result = "err"
                  /\ pcalls[i].out.payload = pcalls[i].tree

\* C10: every call of a built-in processor that meets a format failure, a
\* write failure or a closed channel returns a failure holding the tree it
\* was given; none panics or drops the tree.
C10_ErrorsKeepTree ==
    \A i \in 1..Len(pcalls) :
        pcalls[i].fault # "none" =>
            /\ pcalls[i].out.result = "err"
            /\ pcalls[i].out.payload = pcalls[i].tree

\* C11: when the processor returns a failure for a root tree, on_close and
\* on_event still return: no notification ends in the panic of
\* fail::processing_error.
C11_ProcessFailureReturns == panic # "processing_error"

\* C12: an open span's uuid is the uuid field of its attributes if it has
\* one, else the uuid of its parent span, the span it is attached to on
\* close, if it has a parent, else a fresh one; so also for a child whose
\* parent was named explicitly and is not entered.
C12_UuidFromExplicitParentFresh ==
    \A id \in DOMAIN ext :
        ext[id].span.uuid =
            IF attrs[id] # Nil THEN attrs[id]
            ELSE IF reg[id].parent # NoParent
                 THEN ext[reg[id].parent].span.uuid
                 ELSE new_v4(id)

\* the spans with no open ancestor-or-self, and the trees they are in
Processable(id) == reg[id].st = "closed" /\ reg[RootOf(id)].st = "closed"

NamesIn(tree) == {n.name : n \in {m \in Nodes(tree) : m.kind = "span"}}

\* C13: the span trees handed to the processor are exactly the closed
\* spans with no parent, each once; every span inside a processed tree is
\* closed; a span that is open, or whose root is open, is in no processed
\* tree.
C13_OnlyCompleteTrees ==
    /\ \A k \in 1..Len(processed) :
          processed[k].kind = "span" =>
              /\ reg[processed[k].name].parent = NoParent
              /\ \A j \in 1..Len(processed) :
                    (processed[j].kind = "span"
                     /\ processed[j].name = processed[k].name) => j = k
    /\ \A id \in SpanIds :
          (reg[id].st = "closed" /\ reg[id].parent = NoParent) =>
              \E k \in 1..Len(processed) :
                  processed[k].kind = "span" /\ processed[k].name = id
    /\ \A s \in ProcessedSpans : reg[s.name].st = "closed"
    /\ \A id \in SpanIds :
          ~Processable(id) =>
              \A k \in 1..Len(processed) : id \notin NamesIn(processed[k])

\* a root span was processed while another root, to which a closed child
\* is already attached, is still open
C13_Witness ==
    /\ \E k \in 1..Len(processed) : processed[k].kind = "span"
    /\ \E id \in DOMAIN ext :
          reg[id].parent = NoParent /\ HasSpanChild(ext[id].span)

\* the step attaches node c to span p, behind the children p has
Attaches(p, kind, name) ==
    /\ p \in DOMAIN ext /\ p \in DOMAIN ext'
    /\ Len(ext'[p].span.children) = Len(ext[p].span.children) + 1
    /\ SubSeq(ext'[p].span.children, 1, Len(ext[p].span.children))
          = ext[p].span.children
    /\ ext'[p].span.children[Len(ext'[p].span.children)].kind = kind
    /\ ext'[p].span.children[Len(ext'[p].span.children)].name = name

\* C14: a span's children are in the order in which their on_close and
\* on_event completed: each completion puts the child behind those the
\* span has, and no other step changes any span's children.
C14_ChildrenInCompletionOrder ==
    [][/\ \A id \in SpanIds :
             (Open(id) /\ reg'[id].st = "closed"
              /\ reg[id].parent # NoParent) =>
                 Attaches(reg[id].parent, "span", id)
       /\ (Len(events') > Len(events)
           /\ events'[Len(events')] # NoParent) =>
              Attaches(events'[Len(events')], "event", Len(events'))
       /\ \A p \in DOMAIN ext \cap DOMAIN ext' :
             \/ ext'[p].span.children = ext[p].span.children
             \/ \E id \in SpanIds :
                   Open(id) /\ reg'[id].st = "closed" /\ reg[id].parent = p
             \/ Len(events') > Len(events) /\ events'[Len(events')] = p
      ]_vars

\* span 3 was opened after span 2, which was entered before 3 closed; 3
\* closed first and is the first child of their parent, 2 the second
C14_Witness ==
    \E p \in DOMAIN ext :
        /\ Len(ext[p].span.children) = 2
        /\ ext[p].span.children[1].kind = "span"
        /\ ext[p].span.children[1].name = 3
        /\ ext[p].span.children[2].kind = "span"
        /\ ext[p].span.children[2].name = 2
        /\ elog[2] # <<>>

\* the fields event.record has passed to the Visitor so far
Consumed ==
    SubSeq(visitor.input, 1, Len(visitor.input) - Len(visitor.todo))

MessagePlaces(fs) == {i \in 1..Len(fs) : fs[i].name = "message"}

FirstMessage(fs) ==
    IF MessagePlaces(fs) = {} THEN 0
    ELSE CHOOSE i \in MessagePlaces(fs) : \A j \in MessagePlaces(fs) : i <= j

\* the bool field `immediate` is the flag of the side channel, not data
IsFlag(f) == f.name = "immediate" /\ f.value.type = "bool"

RECURSIVE KeptFields(_, _, _)
KeptFields(fs, i, first) ==
    IF i > Len(fs) THEN <<>>
    ELSE (IF i = first \/ IsFlag(fs[i]) THEN <<>>
          ELSE <<[key |-> fs[i].name, value |-> format_debug(fs[i].value)]>>)
         \o KeptFields(fs, i + 1, first)

\* C15: the event's message is the value of the first field named message;
\* every later field named message is an ordinary field; the fields are
\* all other recorded fields, in recorded order (the bool field immediate
\* is the flag of the side channel and no field).
C15_FirstMessageWins ==
    LET fs == Consumed
        first == FirstMessage(fs)
    IN /\ visitor.message =
             IF first = 0 THEN <<>> ELSE <<format_debug(fs[first].value)>>
       /\ visitor.fields = KeptFields(fs, 1, first)

\* an event recorded with a key, the message "a" and then message = "a"
\* as a string: the second message is a field behind the key
C15_Witness ==
    /\ visitor.todo = <<>>
    /\ Len(visitor.input) = 3
    /\ visitor.input[1].name = "key"
    /\ visitor.input[2] =
          [name |-> "message", value |-> [type |-> "args", v |-> "a"]]
    /\ visitor.input[3] =
          [name |-> "message", value |-> [type |-> "str", v |-> "a"]]
    /\ visitor.message = <<"a">>
    /\ Len(visitor.fields) = 2
    /\ visitor.fields[2] = [key |-> "message", value |-> "\"a\""]

\* C16: an event written to stderr as immediate is also a child of its
\* parent span, once, or was passed to the processor if it has no parent.
C16_ImmediateIsAdditive ==
    \A i \in 1..Len(urgent) :
        LET eid == urgent[i].event IN
        /\ eid \in 1..Len(events)
        /\ IF events[eid] # NoParent
           THEN Cardinality(EventPlaces(SpanRecord(events[eid]), eid)) = 1
           ELSE \E k \in 1..Len(processed) :
                   processed[k].kind = "event" /\ processed[k].name = eid

\* a span was entered, its first event was not immediate, its second was;
\* the span was processed and holds both events in that order
C16_Witness ==
    /\ Len(urgent) = 1
    /\ urgent[1].event = 2
    /\ Len(processed) = 1
    /\ processed[1].kind = "span"
    /\ elog[processed[1].name] # <<>>
    /\ Len(processed[1].children) = 2
    /\ processed[1].children[1].kind = "event"
    /\ processed[1].children[1].name = 1
    /\ processed[1].children[2].kind = "event"
    /\ processed[1].children[2].name = 2

\* the step is a notification that acted on a span the Registry holds and
\* that has its OpenedSpan, or an event recorded under such a span or under
\* none, or a new span
Acted ==
    \/ \E id \in SpanIds : reg[id].st = "absent" /\ reg'[id].st = "open"
    \/ \E t \in Threads, id \in SpanIds :
          /\ Open(id) /\ has_opened(id)
          /\ stack'[t] = Append(stack[t], id)
          /\ Len(elog'[id]) = Len(elog[id]) + 1
    \/ \E t \in Threads, id \in SpanIds :
          /\ Open(id) /\ has_opened(id)
          /\ stack[t] = Append(stack'[t], id)
          /\ Len(elog'[id]) = Len(elog[id]) + 1
    \/ \E id \in SpanIds :
          /\ Open(id) /\ has_opened(id)
          /\ reg'[id].st = "closed"
          /\ id \notin DOMAIN ext'
    \/ /\ Len(events') = Len(events) + 1
       /\ \/ events'[Len(events')] = NoParent
          \/ events'[Len(events')] \in DOMAIN ext

\* a panic leaves no new OpenedSpan, no entry and no record behind
Aborted ==
    /\ panic' # "none"
    /\ DOMAIN ext' \subseteq DOMAIN ext
    /\ stack' = stack /\ elog' = elog /\ events' = events
    /\ processed' = processed

\* every notification either panics or acts on a span the Registry holds
\* and that has its OpenedSpan; no OpenedSpan exists for a span the
\* Registry does not hold
MisuseIsFatal ==
    /\ [](\A id \in SpanIds : has_opened(id) => Open(id))
    /\ [][steps' # steps => (Aborted \/ (panic' = "none" /\ Acted))]_vars

\* C17: per span id the layer's state goes absent, open, closed: the
\* OpenedSpan is inserted when the span is opened, removed when it closes,
\* and exists only in between; enter and exit act on open spans only;
\* after the close no notification re-creates or changes state of the id.
C17_SpanLifecycle ==
    /\ [](\A id \in SpanIds :
            /\ has_opened(id) => Open(id)
            /\ reg[id].st = "absent" => elog[id] = <<>>)
    /\ [][\A id \in SpanIds :
            /\ reg[id].st = "absent" => reg'[id].st \in {"absent", "open"}
            /\ reg[id].st = "open" => reg'[id].st \in {"open", "closed"}
            /\ (~has_opened(id) /\ has_opened(id)') =>
                  (reg[id].st = "absent" /\ reg'[id].st = "open")
            /\ (has_opened(id) /\ ~has_opened(id)') =>
                  (reg[id].st = "open" /\ reg'[id].st = "closed")
            /\ (reg[id].st = "open" /\ reg'[id].st = "closed") =>
                  ~has_opened(id)'
            /\ elog'[id] # elog[id] => (has_opened(id) /\ has_opened(id)')
            /\ reg[id].st = "closed" =>
                  /\ reg'[id] = reg[id]
                  /\ elog'[id] = elog[id]
                  /\ ~has_opened(id)'
         ]_vars

\* a span was opened, entered, exited and closed; a later enter addressed
\* to its id panicked and left no OpenedSpan
C17_Witness ==
    /\ panic = "span_not_in_ctx"
    /\ \E id \in SpanIds :
          /\ reg[id].st = "closed"
          /\ Alternating(elog[id]) /\ Len(elog[id]) = 2
          /\ ~has_opened(id)
          /\ \A other \in SpanIds \ {id} : reg[other].st = "absent"

\* C18: enter, exit and close addressed to a span the Registry does not
\* hold or that has no OpenedSpan, and an event recorded under a span that
\* has no OpenedSpan, panic: none is passed over, none creates state. An
\* event whose explicit parent the Registry does not hold is no such
\* error: it is recorded as an event without parent.
C18_MisuseIsFatalButOrphans ==
    /\ MisuseIsFatal
    /\ [](\A eid \in orphaned :
            /\ events[eid] = NoParent
            /\ \E k \in 1..Len(processed) :
                  processed[k].kind = "event" /\ processed[k].name = eid)

\* C18 as stated: also an event addressed to a span the Registry does not
\* hold panics, so none is ever recorded.
C18_MisuseIsFatal ==
    /\ MisuseIsFatal
    /\ [](orphaned = {})

\* the Registry holds a span the layer has no OpenedSpan for; entering it
\* panicked
C18_Witness ==
    /\ panic = "opened_span_not_in_exts"
    /\ \E id \in SpanIds : Open(id) /\ ~has_opened(id)
    /\ stack["t1"] = <<>>

\* the calls of id() that returned
Returns(c) == c.panic = "none"

\* C19: id() returns the uuid of the innermost span its thread has
\* entered, the uuid field of that span if it had one; calls made inside
\* the same spans return the same; it panics when its thread is in no span
\* or the layer is not installed.
C19_IdOfInnermostSpan ==
    /\ \A i \in 1..Len(got) :
          LET c == got[i] IN
          IF c.installed /\ c.stack # <<>>
          THEN /\ Returns(c)
               /\ c.uuid = SpanRecord(c.stack[Len(c.stack)]).uuid
               /\ attrs[c.stack[Len(c.stack)]] # Nil =>
                     c.uuid = attrs[c.stack[Len(c.stack)]]
          ELSE ~Returns(c)
    /\ \A i, j \in 1..Len(got) :
          (Returns(got[i]) /\ Returns(got[j])
           /\ got[i].stack = got[j].stack) => got[i].uuid = got[j].uuid

\* inside span 1 with uuid 1 and span 2 with uuid 2 id() returned 2; after
\* span 2 was exited it returned 1
C19_Witness ==
    /\ attrs[1] = 1 /\ attrs[2] = 2
    /\ Len(got) = 2
    /\ got[1].stack = <<1, 2>> /\ got[1].uuid = 2
    /\ got[2].stack = <<1>> /\ got[2].uuid = 1

\* id() called outside every span panicked
C19_WitnessPanic ==
    /\ Len(got) = 1
    /\ got[1].installed /\ got[1].stack = <<>>
    /\ got[1].panic = "no_current_span"
    /\ \E id \in SpanIds : reg[id].st = "closed" /\ elog[id] # <<>>

\* C20: of Tree::event and Tree::span exactly one returns Ok: on an event
\* tree event() returns the event and span() an ExpectedSpanError, on a
\* span tree span() returns the span and event() an ExpectedEventError;
\* both return a Result, neither panics.
C20_ExactlyOneAccessor ==
    \A i \in 1..Len(probe) :
        LET p == probe[i] IN
        /\ p.event.ok # p.span.ok
        /\ p.tree.kind = "event" =>
              /\ p.event.ok /\ p.event.value = p.tree
              /\ p.span.value = ExpectedSpanError
        /\ p.tree.kind = "span" =>
              /\ p.span.ok /\ p.span.value = p.tree
              /\ p.event.value = ExpectedEventError

\* an event tree was narrowed after a span tree with a child was processed
C20_Witness ==
    /\ Len(probe) = 1
    /\ probe[1].tree.kind = "event"
    /\ probe[1].event.ok /\ ~probe[1].span.ok
    /\ \E k \in 1..Len(processed) :
          processed[k].kind = "span" /\ processed[k].children # <<>>

\* a span tree with a child was narrowed
C20_WitnessSpan ==
    /\ Len(probe) = 1
    /\ probe[1].tree.kind = "span"
    /\ probe[1].tree.children # <<>>
    /\ probe[1].span.ok /\ ~probe[1].event.ok

\* ------------------------------------------------- reading the formatted lines
\* the nodes of a tree in the order their lines are written, with the
\* depth of each and whether it is the last child of its parent
RECURSIVE Preorder(_, _, _)
Preorder(tree, depth, last) ==
    LET n == Len(tree.children)
        RECURSIVE Below(_)
        Below(i) ==
            IF i > n THEN <<>>
            ELSE Preorder(tree.children[i], depth + 1, i = n) \o Below(i + 1)
    IN  <<[node |-> tree, depth |-> depth, last |-> last, size |-> 1 + Len(Below(1))]>>
        \o Below(1)

Formatted == pretty.out # <<>>

Written == Preorder(pretty.tree, 0, TRUE)

\* p shows the number 100 * num / den, rounded to the decimals it has
ShowsPercent(p, num, den) ==
    /\ p.class = "finite"
    /\ 2 * (p.value * den - 100 * num * Pow10(p.decimals)) \in (0 - den)..den

ShowsHundred(p) == p.class = "finite" /\ p.value = 100 * Pow10(p.decimals)

\* C21: every span line of a formatted tree shows incl% = 100 * total /
\* root total, the root total being the total of the tree's outermost span
\* at every depth, so that the outermost span shows 100%; excl% =
\* 100 * (total - nested) / root total is shown exactly when nested > 0.
C21_PercentOfRoot ==
    Formatted /\ pretty.tree.kind = "span" =>
        /\ Len(pretty.out) = Len(Written)
        /\ ShowsHundred(pretty.out[1].total)
        /\ \A i \in 1..Len(Written) :
              LET span == Written[i].node
                  line == pretty.out[i]
                  root == pretty.tree.total_duration
              IN  span.kind = "span" =>
                    /\ line.kind = "span"
                    /\ ShowsPercent(line.total, span.total_duration, root)
                    /\ (line.base # Absent) <=> (span.inner_duration > 0)
                    /\ span.inner_duration > 0 =>
                          ShowsPercent(line.base,
                              span.total_duration - span.inner_duration, root)

\* the same with a root that was entered for some time
C21_PercentOfPositiveRoot ==
    pretty.tree.total_duration > 0 => C21_PercentOfRoot

\* the fixture: a root span "outer" of total 100 whose two children are a
\* span "inner" of total 40 without children and an event
IsFixture(tree) ==
    /\ tree.kind = "span" /\ tree.name = "outer" /\ tree.total_duration = 100
    /\ Len(tree.children) = 2
    /\ \E i \in 1..2 :
          /\ tree.children[i] = ASpan(40, <<>>)
          /\ tree.children[3 - i].kind = "event"

ShowsNumber(p, n) == p.class = "finite" /\ p.value = n * Pow10(p.decimals)

\* the line of the fixture's span "inner"
InnerLine == CHOOSE line \in Range(pretty.out) : line.name = "inner"

\* what the fixture renders besides the percentage of "inner"
FixtureOtherwise ==
    /\ Len(pretty.out) = 3
    /\ pretty.out[1].indent = <<>>
    /\ ShowsNumber(pretty.out[1].base, 60)
    /\ ShowsNumber(pretty.out[1].total, 100)
    /\ InnerLine.kind = "span" /\ InnerLine.base = Absent
    /\ pretty.out[3].indent = <<"Turn">>

\* C22: the fixture renders excl% = 60 and incl% = 100 for "outer" and
\* incl% = 100 * 40 / 100 = 40 for "inner", without an excl%; its last
\* child is indented with the last-branch marker.
C22_FixtureRendering ==
    Formatted /\ IsFixture(pretty.tree) =>
        FixtureOtherwise /\ ShowsNumber(InnerLine.total, 40)

\* C22 as stated: the fixture renders 100% inclusive for "inner".
C22_FixtureInnerHundred ==
    Formatted /\ IsFixture(pretty.tree) =>
        FixtureOtherwise /\ ShowsNumber(InnerLine.total, 100)

C22_Witness ==
    /\ Formatted /\ IsFixture(pretty.tree)
    /\ pretty.generation = "printer"
    /\ pretty.tree.children[2].kind = "event"

\* the written node at depth j under which line i lies
Ancestor(i, j) ==
    LET at == {k \in 1..i : Written[k].depth = j}
    IN  Written[CHOOSE k \in at : \A l \in at : l <= k]

\* C23: every child but the last is written with the branch marker at its
\* depth and the last child with the last-branch marker; on the lines of a
\* child's descendants the marker at the child's depth is the continuing
\* line if a later sibling of the child follows and blank if it was the
\* last, so a connector stands at a depth only where a sibling still follows.
C23_Connectors ==
    Formatted =>
        /\ Len(pretty.out) = Len(Written)
        /\ \A i \in 1..Len(Written) :
              LET w    == Written[i]
                  edge == pretty.out[i].indent
              IN  /\ Len(edge) = w.depth
                  /\ w.depth > 0 =>
                        edge[w.depth] = IF w.last THEN "Turn" ELSE "Fork"
                  /\ \A j \in 1..(w.depth - 1) :
                        edge[j] = IF Ancestor(i, j).last THEN "Null" ELSE "Line"

\* the same of the printer generation alone
C23_ConnectorsOfPrinter == pretty.generation = "printer" => C23_Connectors

\* ------------------------------------------------ reading the shown durations
Displayed == shown.out # NotShown

\* the number of digits of a natural number, 0 having none
RECURSIVE Digits(_)
Digits(n) == IF n = 0 THEN 0 ELSE 1 + Digits(n \div 10)

\* the number of digits before the decimal point of the nanoseconds shown
NanoDigits == IF shown.t.m = 0 THEN 0 ELSE Digits(shown.t.m) + shown.t.e

UnitNames == <<"ns", "us", "ms", "s">>

\* the first unit in which the value is below 1000, seconds at the latest
UnitIndex ==
    IF NanoDigits <= 3 THEN 1
    ELSE IF NanoDigits <= 6 THEN 2
    ELSE IF NanoDigits <= 9 THEN 3
    ELSE 4

\* the digits before the decimal point of the value in that unit
ScaledDigits == NanoDigits - 3 * (UnitIndex - 1)

\* shown.out shows the nanoseconds in the unit of index u with d decimals
ShowsScaled(u, d) ==
    LET k == 3 * (u - 1) - d - shown.t.e   \* value = m / 10^k
    IN  /\ shown.out.unit = UnitNames[u]
        /\ shown.out.decimals = d
        /\ IF shown.t.m = 0 THEN shown.out.value = 0
           ELSE IF k <= 0 THEN shown.out.value = shown.t.m * Pow10(0 - k)
           ELSE IF k >= 9 THEN shown.out.value = 0
           ELSE 2 * (shown.out.value * Pow10(k) - shown.t.m)
                    \in (0 - Pow10(k))..Pow10(k)

\* C24: a duration of n nanoseconds is shown in the first of ns, us, ms, s
\* in which its value is below 1000, values of 1000 s and above staying in
\* seconds, with 2 decimals when the scaled value is below 10, 1 when below
\* 100 and 0 when below 1000.
C24_UnitAndDecimals ==
    Displayed =>
        ShowsScaled(UnitIndex,
                    IF ScaledDigits <= 1 THEN 2
                    ELSE IF ScaledDigits = 2 THEN 1 ELSE 0)

C24_Witness ==
    /\ Displayed
    /\ shown.t = [m |-> 7470, e |-> 3]
    /\ shown.out = [value |-> 747, decimals |-> 2, unit |-> "ms"]

\* a duration of a thousand seconds and more is shown in whole seconds
C24_WitnessSeconds ==
    /\ Displayed
    /\ shown.t = [m |-> 1234, e |-> 9]
    /\ shown.out = [value |-> 1234, decimals |-> 0, unit |-> "s"]

\* ------------------------------------------------------- reading the tags
\* the label and the default icon of each severity level
CanonicalLabel ==
    [level \in Levels |->
        IF level = "TRACE" THEN "trace"
        ELSE IF level = "DEBUG" THEN "debug"
        ELSE IF level = "INFO" THEN "info"
        ELSE IF level = "WARN" THEN "warn"
        ELSE "error"]

CanonicalIcon ==
    [level \in Levels |->
        IF level = "TRACE" THEN "round_pushpin"
        ELSE IF level = "DEBUG" THEN "bug"
        ELSE IF level = "INFO" THEN "speech_balloon"
        ELSE IF level = "WARN" THEN "construction"
        ELSE "rotating_light"]

IsCanonical(tag, level) ==
    /\ tag.prefix = NoPrefix
    /\ tag.level = CanonicalLabel[level]
    /\ tag.icon = CanonicalIcon[level]

\* C25: every recorded event has one tag: the one the configured tag parser
\* returned if it returned one, otherwise the canonical tag of the event's
\* level (its label and default icon); every level has such a tag.
C25_TagOfParserOrLevel ==
    /\ Len(tags) = Len(events)
    /\ \A eid \in 1..Len(tags) :
          LET parsed == try_parse(tag_parser, tags[eid].meta)
          IN  IF parsed # NoTagParsed
              THEN tags[eid].tag = parsed
              ELSE IsCanonical(tags[eid].tag, tags[eid].meta.level)
    /\ \A level \in Levels : IsCanonical(Tag_new_level(level), level)

\* under kanidm_tag one event took the parser's tag and one its level's
C25_Witness ==
    /\ tag_parser = "kanidm_tag"
    /\ Len(tags) = 2
    /\ tags[1].meta = [target |-> "security", level |-> "ERROR"]
    /\ tags[1].tag = [prefix |-> "security", level |-> "critical",
                      icon |-> "closed_lock_with_key"]
    /\ tags[2].meta = [target |-> "security", level |-> "WARN"]
    /\ tags[2].tag = [prefix |-> NoPrefix, level |-> "warn",
                      icon |-> "construction"]

\* ------------------------------------------------------ reading the join
Completed == m_pc \in {"signal", "join"}

Terminated == m_pc \in {"returned", "panicked"}

\* C26: once the future given to on has completed, on terminates: the
\* worker leaves its receive loop, drains the buffer and ends, and joining
\* it completes, also while a task that outlives the future holds a sender
\* or keeps sending.
C26_OnTerminates == Completed ~> Terminated

\* the same of Runtime::on of runtime.rs alone
C26_RuntimeOnTerminates == (w_mode = "worker" /\ Completed) ~> Terminated

\* the processor a composed processor calls first
RECURSIVE FirstLeaf(_)
FirstLeaf(p) == IF p.kind = "leaf" THEN p.id ELSE FirstLeaf(p.primary)

\* C27: with_fallback(primary, fallback).process(t) calls the fallback if
\* and only if primary failed with the tree in its report; when primary
\* succeeds the fallback is not called and the result is success; the
\* fallback is called at most once and only with the tree given to primary.
C27_FallbackIffFailedWithTree ==
    fb_pc = "done" =>
        LET r     == process(fb_proc.primary, fb_in)
            calls == CallsTo(fb_proc.fallback)
            entry == FirstLeaf(fb_proc.fallback)
        IN /\ (calls # <<>>) <=> (~r.ok /\ r.payload # NoTree)
           /\ r.ok => (fb_out.ok /\ calls = <<>>)
           /\ Cardinality({i \in 1..Len(calls) : calls[i].leaf = entry}) <= 1
           /\ \A i \in 1..Len(calls) : calls[i].tree = fb_in
           /\ CallsTo(fb_proc.primary) # <<>>
           /\ Head(CallsTo(fb_proc.primary)).tree = fb_in

\* primary succeeded: the fallback was not called
C27_Witness ==
    /\ fb_pc = "done"
    /\ fb_proc = with_fallback(Leaf("p1", "ok"), Leaf("p2", "fail_tree"))
    /\ fb_out.ok
    /\ fb_out.calls = <<[leaf |-> "p1", tree |-> fb_in]>>

\* a primary that is itself composed failed with the tree: the fallback was
\* called once with that tree
C27_WitnessCalled ==
    /\ fb_pc = "done"
    /\ fb_proc = with_fallback(with_fallback(Leaf("p1", "fail_tree"),
                                             Leaf("p2", "fail_tree")),
                               Leaf("p3", "ok"))
    /\ fb_out.ok
    /\ CallsTo(fb_proc.fallback) = <<[leaf |-> "p3", tree |-> fb_in]>>

\* the processors of a composed processor, in the order they are tried
RECURSIVE Chain(_)
Chain(p) ==
    IF p.kind = "leaf" THEN <<p>> ELSE Chain(p.primary) \o Chain(p.fallback)

AllFailIntact(p) == \A i \in 1..Len(Chain(p)) : Chain(p)[i].beh = "fail_tree"

\* C28: when every processor of a fallback chain fails with the tree
\* intact, each is tried in turn, process returns a failure, and the failure
\* is the one of the last processor tried, not the primary's.
C28_LastFailureSurfaces ==
    (fb_pc = "done" /\ AllFailIntact(fb_proc)) =>
        LET chain == Chain(fb_proc)
        IN /\ ~fb_out.ok
           /\ fb_out.reason = chain[Len(chain)].id
           /\ fb_out.reason # chain[1].id
           /\ fb_out.payload = fb_in
           /\ fb_out.calls =
                 [i \in 1..Len(chain) |-> [leaf |-> chain[i].id, tree |-> fb_in]]

\* a chain of three processors, the fallback itself composed, all failed
C28_Witness ==
    /\ fb_pc = "done"
    /\ fb_proc = with_fallback(Leaf("p1", "fail_tree"),
                               with_fallback(Leaf("p2", "fail_tree"),
                                             Leaf("p3", "fail_tree")))
    /\ ~fb_out.ok
    /\ fb_out.reason = "p3"
    /\ Len(fb_out.calls) = 3

\* a notification that recorded an event without parent, or closed a span
\* without parent, handed the tree to the processor and returned
RootForwarded ==
    /\ (Len(events') > Len(events) /\ events'[Len(events')] = NoParent) =>
          /\ panic' = "none"
          /\ processed' = Append(processed, Event_new(Len(events')))
    /\ \A id \in SpanIds :
          (/\ Open(id) /\ has_opened(id) /\ reg[id].parent = NoParent
           /\ reg'[id].st = "closed") =>
              /\ panic' = "none"
              /\ Len(processed') = Len(processed) + 1
              /\ processed'[Len(processed')].kind = "span"
              /\ processed'[Len(processed')].name = id

\* C29: a node whose parent resolves to no span is root-level: a closing
\* span without parent is handed to the processor as a span tree and an
\* event without parent as an event tree; a parent that does not resolve
\* makes neither be dropped nor the call fail, the only panic of a lookup
\* being that of a span the Registry holds without OpenedSpan.
C29_UnresolvedParentIsRoot ==
    /\ [][RootForwarded]_vars
    /\ [](\A eid \in orphaned :
            \E k \in 1..Len(processed) : processed[k] = Event_new(eid))
    /\ [](panic = "opened_span_not_in_exts" =>
            \E id \in SpanIds : Open(id) /\ ~has_opened(id))

\* a span without parent was closed and processed; then an event naming it
\* as its parent was processed as a tree of its own
C29_Witness ==
    /\ panic = "none"
    /\ reg[1].st = "closed" /\ reg[1].parent = NoParent
    /\ orphaned = {1}
    /\ Len(processed) = 2
    /\ processed[1].kind = "span" /\ processed[1].name = 1
    /\ processed[2] = Event_new(1)

\* the span was entered twice with no exit between
EnteredTwice(id) ==
    \E i \in 1..(Len(elog[id]) - 1) :
        elog[id][i][1] = "enter" /\ elog[id][i + 1][1] = "enter"

\* C30: an enter of a span that follows another enter of it without an exit
\* between is detected: the second on_enter panics instead of overwriting
\* the instant the first one recorded.
C30_DoubleEnterDetected ==
    \A id \in SpanIds : EnteredTwice(id) => panic # "none"

\* ---------------------------------------------------------------- C31
\* a call of process on a sender processor that has not returned
Blocked(i) == pcalls[i].out.result = "parked"

\* C31: handing a tree to a channel-backed sender processor never blocks the
\* producer: no call of process is left waiting, whatever the number of
\* trees queued and however long the receiving end takes no tree.
C31_NeverBlocks == \A i \in 1..Len(pcalls) : ~Blocked(i)

\* the same of the senders of an unbounded channel alone
C31_UnboundedNeverBlocks ==
    \A i \in 1..Len(pcalls) : pcalls[i].impl = "Sender" => ~Blocked(i)

\* the sender processor of worker_task_inner: process can be called and
\* returns wherever the worker is and whatever the buffer holds, as long as
\* the producer holds its sender
C31_RuntimeSenderReturns ==
    (sender /\ NumSent < MaxSends) => ENABLED sender_process("task")
\* ---------------------------------------------------------------- C32
\* the names of the spans from the root of a tree down to the parent of
\* event eid, one sequence for every place the event has in the tree
RECURSIVE PathsTo(_, _)
PathsTo(tree, eid) ==
    IF tree.kind = "event"
    THEN IF tree.name = eid THEN {<<>>} ELSE {}
    ELSE {<<tree.name>> \o path :
            path \in UNION {PathsTo(tree.children[i], eid) :
                              i \in 1..Len(tree.children)}}

\* the line of event eid is among the first n lines written to stderr
WrittenIn(lines, eid) == \E i \in 1..Len(lines) : lines[i].event = eid

\* s is the chain of Registry parents from a root span down to span p
RegistryChain(s, p) ==
    IF p = NoParent THEN s = <<>>
    ELSE /\ s # <<>>
         /\ s[Len(s)] = p
         /\ reg[s[1]].parent = NoParent
         /\ \A k \in 1..(Len(s) - 1) : reg[s[k + 1]].parent = s[k]

\* the notification that records an immediate event writes its line, and
\* nothing else writes one
WrittenInNotification ==
    /\ \A e \in 1..Len(tags') :
          (e > Len(tags) /\ tags'[e].immediate) =>
              /\ Len(urgent') = Len(urgent) + 1
              /\ urgent'[Len(urgent')].event = e
              /\ RegistryChain(urgent'[Len(urgent')].scope, events'[e])
    /\ urgent' # urgent =>
          /\ Len(tags') = Len(tags) + 1
          /\ tags'[Len(tags')].immediate
          /\ SubSeq(urgent', 1, Len(urgent)) = urgent

\* a tree given to the processor in this step holds no immediate event
\* whose line was not written before: before the step for an event inside
\* a span, by the end of it for an event that is its own tree
WrittenBeforeProcessed ==
    Len(processed') > Len(processed) =>
        LET tree == processed'[Len(processed')]
        IN \A e \in 1..Len(tags') :
              (tags'[e].immediate /\ PathsTo(tree, e) # {}) =>
                  IF tree.kind = "event" THEN WrittenIn(urgent', e)
                  ELSE WrittenIn(urgent, e)

\* C32: an immediate event is written to stderr inside its on_event
\* notification, hence before the processor receives the root tree that
\* holds it, and its line lists the names of its ancestor spans from the
\* root down to its parent.
C32_ImmediateWrittenFirst ==
    /\ [][WrittenInNotification /\ WrittenBeforeProcessed]_vars
    /\ [](\A k \in 1..Len(processed), i \in 1..Len(urgent) :
            PathsTo(processed[k], urgent[i].event) # {} =>
                PathsTo(processed[k], urgent[i].event) = {urgent[i].scope})

\* span 1 holds span 2, which holds an immediate event: its line reads
\* "1 > 2 >", and the tree of span 1 reached the processor afterwards
C32_Witness ==
    /\ Len(urgent) = 1
    /\ urgent[1].scope = <<1, 2>>
    /\ Len(processed) = 1
    /\ processed[1].kind = "span"
    /\ processed[1].name = 1
    /\ PathsTo(processed[1], urgent[1].event) = {<<1, 2>>}
    /\ panic = "none"
\* ---------------------------------------------------------------- C33
\* every tree handed to the processor so far is still what it was
HandedOverKept ==
    /\ Len(processed') >= Len(processed)
    /\ \A k \in 1..Len(processed) : processed'[k] = processed[k]

\* C33: a root tree handed to the processor is changed by no later
\* notification: the trees handed over stay as they were, and the layer
\* keeps no OpenedSpan of a span inside such a tree through which a
\* notification could reach it.
C33_HandedOverIsFrozen ==
    /\ [][HandedOverKept]_vars
    /\ [](\A n \in ProcessedSpans : ~has_opened(n.name))

\* the tree of span 1, entered and with an event, was handed over; the
\* notification of a later event, outside every span, left it as it was
C33_Witness ==
    /\ Len(processed) = 2
    /\ processed[1].kind = "span"
    /\ processed[1].name = 1
    /\ processed[1].total_duration > 0
    /\ Len(processed[1].children) = 1
    /\ processed[1].children[1].name = 1
    /\ processed[2].kind = "event"
    /\ processed[2].name = 2
    /\ has_opened(2)
\* ---------------------------------------------------------------- C34
\* the trees of a sequence are pairwise different
NoRepeat(seq) ==
    \A i, j \in 1..Len(seq) : i # j => seq[i] # seq[j]

\* the worker's call of process on a tree failed: the one tree it took
\* from the buffer and did not finish
FailedTrees ==
    IF w_pc = "panicked" /\ Len(accepted) > Len(worked)
    THEN {accepted[Len(worked) + 1]} ELSE {}

\* accepted tree i can no longer reach the processor: the worker task is
\* gone and never called process on it
Lost(i) ==
    /\ w_pc \in {"done", "panicked"}
    /\ accepted[i] \notin Range(WorkedTrees) \cup FailedTrees

\* a tree is accepted or handed back, never both; the worker processes
\* accepted trees only, each at most once and in one phase
OneFateAtMost ==
    /\ Range(accepted) \cap Range(rejected) = {}
    /\ NoRepeat(accepted \o rejected)
    /\ NoRepeat(WorkedTrees)
    /\ Range(WorkedTrees) \subseteq Range(accepted)
    /\ Range(queue) \subseteq Range(accepted) \ Range(WorkedTrees)

RECURSIVE Count(_, _, _), CountIn(_, _, _)
Count(tree, kind, name) ==
    (IF tree.kind = kind /\ tree.name = name THEN 1 ELSE 0)
    + CountIn(tree.children, kind, name)
CountIn(trees, kind, name) ==
    IF trees = <<>> THEN 0
    ELSE Count(Head(trees), kind, name) + CountIn(Tail(trees), kind, name)

\* the same among the children attached to the open spans ids
RECURSIVE CountOpen(_, _, _)
CountOpen(ids, kind, name) ==
    IF ids = {} THEN 0
    ELSE LET id == CHOOSE x \in ids : TRUE
         IN CountIn(ext[id].span.children, kind, name)
            + CountOpen(ids \ {id}, kind, name)

\* occurrences in the output forest: the trees handed to the processor and
\* the children attached so far to spans that are still open
ForestCount(kind, name) ==
    CountIn(processed, kind, name) + CountOpen(DOMAIN ext, kind, name)

\* C35: every recorded event and every closed span occurs exactly once in
\* the output forest, as a child of one span or as a root tree handed to
\* the processor once; a span that is still open occurs nowhere yet.  (A
\* notification that unwinds on a span without its OpenedSpan ends the
\* assembly.)
C35_ExactlyOnceInForest ==
    panic # "opened_span_not_in_exts" =>
        /\ \A eid \in 1..Len(events) : ForestCount("event", eid) = 1
        /\ \A id \in SpanIds :
              ForestCount("span", id) =
                  (IF reg[id].st = "closed" THEN 1 ELSE 0)

\* event 1 is a root tree; span 1 was handed over holding span 2, which
\* holds event 2
C35_Witness ==
    /\ Len(processed) = 2
    /\ processed[1].kind = "event" /\ processed[1].name = 1
    /\ processed[2].kind = "span" /\ processed[2].name = 1
    /\ Len(processed[2].children) = 1
    /\ processed[2].children[1].kind = "span"
    /\ processed[2].children[1].name = 2
    /\ Len(processed[2].children[1].children) = 1
    /\ processed[2].children[1].children[1].kind = "event"
    /\ processed[2].children[1].children[1].name = 2
\* ---------------------------------------------------------------- C36
\* the OpenedSpan of every span but id, the set of open spans and the trees
\* handed to the processor are what they were
OthersKept(id) ==
    /\ DOMAIN ext' = DOMAIN ext
    /\ \A other \in DOMAIN ext : other # id => ext'[other] = ext[other]
    /\ processed' = processed

\* this step is on_enter(id) or on_exit(id): it changed at most the start
\* instant and the total duration of span id
TimingOnly(id) ==
    elog'[id] # elog[id] =>
        /\ OthersKept(id)
        /\ ext'[id].span.children = ext[id].span.children
        /\ ext'[id].span.inner_duration = ext[id].span.inner_duration
        /\ ext'[id].span.uuid = ext[id].span.uuid
        /\ ext'[id].span.name = ext[id].span.name
        /\ IF elog'[id][Len(elog'[id])][1] = "enter"
           THEN ext'[id].span = ext[id].span
           ELSE ext'[id].start = ext[id].start

\* this step is on_event under span id: it changed the children of span id
\* by one event at the end, and nothing else
ChildrenOnly(id) ==
    (Len(events') > Len(events) /\ events'[Len(events')] = id) =>
        /\ OthersKept(id)
        /\ \E event \in Range(ext'[id].span.children) :
              /\ event.kind = "event"
              /\ event.name = Len(events')
              /\ ext'[id] = [ext[id] EXCEPT
                               !.span.children = Append(@, event)]

\* C36: enter(id) and exit(id) change only the enter instant and the total
\* duration of span id, leaving its children, nested duration and uuid and
\* every other open span as they were; an event recorded on a span changes
\* only that span's children.
C36_FrameOfEnterExitEvent ==
    [][\A id \in SpanIds : TimingOnly(id) /\ ChildrenOnly(id)]_vars

\* span 1 was entered and exited for a time above zero and holds an event;
\* spans 2 and 3 are open beside it, span 3 as it was created
C36_Witness ==
    /\ has_opened(1) /\ has_opened(3)
    /\ Len(elog[1]) = 2
    /\ ext[1].span.total_duration > 0
    /\ Len(ext[1].span.children) = 1
    /\ ext[1].span.children[1].kind = "event"
    /\ ext[3].span.children = <<>>
    /\ reg[2].st = "open"
\* ---------------------------------------------------------------- C37
\* root_duration of format_span for the outermost span of a tree, which
\* fmt formats with duration_root None
RootDivisor(tree) == unwrap_or(None, tree.total_duration)

\* C37: for every root tree the assembler produces, the root_duration the
\* pretty formatter divides by is not zero, also for a root span that was
\* opened and closed without being entered.
C37_RootDivisorNonZero ==
    \A k \in 1..Len(processed) :
        processed[k].kind = "span" => RootDivisor(processed[k]) # 0

\* the same of the root spans that were inside enter/exit pairs for a time
\* above zero, one thread at a time, or hold a span that was
C37_TimedRootDivisorNonZero ==
    \A k \in 1..Len(processed) :
        (/\ processed[k].kind = "span"
         /\ \E n \in Nodes(processed[k]) :
               /\ n.kind = "span"
               /\ Alternating(elog[n.name])
               /\ SumIntervals(elog[n.name]) > 0)
        => RootDivisor(processed[k]) # 0
\* ---------------------------------------------------------------- C38
\* C38: for every Tag t and string s, t == s holds exactly when s is t's
\* display text, "prefix.level" with a prefix and "level" without; every
\* tag is equal to its own display text.
C38_EqIffDisplayText ==
    /\ (compared.eq.some /\ compared.display.some) =>
          (compared.eq.v <=> compared.other = compared.display.v)
    /\ compared.display.some =>
          /\ Tag_eq(compared.tag, compared.display.v)
          /\ compared.display.v =
                (IF compared.tag.prefix.some
                 THEN compared.tag.prefix.v \o <<".">> \o compared.tag.level
                 ELSE compared.tag.level)

\* the tag of prefix "a" and level ".a" is equal to "a..a", its display text
C38_Witness ==
    /\ compared.tag.prefix = Some(<<"a">>)
    /\ compared.tag.level = <<".", "a">>
    /\ compared.other = <<"a", ".", ".", "a">>
    /\ compared.display = Some(<<"a", ".", ".", "a">>)
    /\ compared.eq = Some(TRUE)

\* the tag of prefix "a." and level "a" is not equal to "a.a"
C38_WitnessUnequal ==
    /\ compared.tag.prefix = Some(<<"a", ".">>)
    /\ compared.tag.level = <<"a">>
    /\ compared.other = <<"a", ".", "a">>
    /\ compared.display = Some(<<"a", ".", ".", "a">>)
    /\ compared.eq = Some(FALSE)
\* ---------------------------------------------------------------- C39
\* the number whose digits to the base 256 are the bytes first+1 .. first+n
RECURSIVE BigEndian(_, _, _)
BigEndian(bytes, first, n) ==
    IF n = 0 THEN 0
    ELSE 256 * BigEndian(bytes, first, n - 1) + bytes[first + n]

\* how many of the two uuid fields the span carries
UuidFields ==
    Cardinality({i \in 1..Len(uspan.attrs) :
                    uspan.attrs[i].name \in {"__uuid_msb", "__uuid_lsb"}})

\* C39: from_u64_pair(into_u64_pair(id)) = id for every id, so a span made
\* by uuid_span!(id, ..) is opened with the id passed; a span carrying only
\* one of the two halves takes no id of its fields: it inherits the uuid of
\* the current span, or gets a new one when there is none.
C39_PairRoundTrip ==
    /\ LET pair == into_u64_pair(uspan.id)
       IN  /\ pair.msb = BigEndian(uspan.id, 0, HalfBytes)
           /\ pair.lsb = BigEndian(uspan.id, HalfBytes, HalfBytes)
           /\ from_u64_pair(pair.msb, pair.lsb) = uspan.id
    /\ (uspan.pc = "opened" /\ uspan.by = "uuid_span") =>
          uspan.uuid = uspan.id
    /\ (uspan.pc = "opened" /\ UuidFields < 2) =>
          uspan.uuid = (IF uspan.current.some THEN uspan.current.v
                        ELSE Uuid_new_v4)

\* inside a span, uuid_span!(id, ..) of an id with high and low bytes was
\* opened with that id
C39_Witness ==
    /\ uspan.pc = "opened" /\ uspan.by = "uuid_span"
    /\ uspan.current = Some(CurrentUuid)
    /\ uspan.id = <<1, 128, 255, 127>>
    /\ uspan.uuid = <<1, 128, 255, 127>>

\* outside every span, a span with the field __uuid_msb alone got a new uuid
C39_WitnessHalf ==
    /\ uspan.pc = "opened" /\ uspan.by = "span"
    /\ ~uspan.current.some
    /\ UuidFields = 1
    /\ uspan.attrs[2].name = "__uuid_msb"
    /\ uspan.uuid = Uuid_new_v4
====
